---------------------------- MODULE Spec2Model ----------------------------
(***************************************************************************)
(* Sandbox lifecycle control plane (OpenSandbox server).                   *)
(*                                                                         *)
(* The model covers the Docker sandbox service                             *)
(* (server/src/services/docker.py): the container daemon, the expiration   *)
(* tracker (_sandbox_expirations, _expiration_timers and the Timer         *)
(* objects), the pending registry and the request handlers; and the        *)
(* Kubernetes sandbox service (server/src/services/k8s/) over BatchSandbox *)
(* workloads.  A process runs exactly one of the two (runtime.type).       *)
(*                                                                         *)
(* Time is a bounded integer clock.  A threading.Timer is modelled by the  *)
(* pair (sandbox id, deadline) it was armed for; the set `timers` holds    *)
(* the Timer objects that are scheduled and neither cancelled nor fired.   *)
(***************************************************************************)
EXTENDS Integers, Sequences, FiniteSets, TLC

\* ------------------------------------------------------------------ bounds
\* The clock runs from 0 to MaxTime; every deadline lies within it.
MaxTime == 3

\* The sandbox ids (uuid4 in the code).  Every handler but list and restore works
\* on the entries of the one id it is called with.
Ids == {"s1"}
Times == 0..MaxTime
Timeouts == {1, 2}

\* ------------------------------------------------------------------ state
VARIABLES
    runtime,              \* "docker" or "kubernetes" (runtime.type)
    booted,               \* the service object has been constructed
    now,                  \* the clock (datetime.now)
    used,                 \* sandbox ids already generated or found on the runtime
    containers,           \* Docker daemon: sandbox id -> container
    sandbox_expirations,  \* self._sandbox_expirations: id -> deadline (0 = absent)
    expiration_timers,    \* self._expiration_timers: id -> deadline of the registered Timer
    timers,               \* Timer objects scheduled, not cancelled, not yet fired
    pending_sandboxes,    \* self._pending_sandboxes: id -> pending record
    pending_cleanup_timers, \* self._pending_cleanup_timers: id -> deadline (0 = none)
    workloads,            \* Kubernetes: sandbox id -> BatchSandbox resource
    renews,               \* request threads inside renew_expiration: thread -> position
    callbacks,            \* Timer threads inside _expire_sandbox
    resp,                 \* what the last handler returned to its caller
    batchsandbox,         \* Kubernetes: status and annotations of the BatchSandbox being created
    wait,                 \* Kubernetes: the create_sandbox call inside _wait_for_sandbox_ready
    objects,              \* runtime objects with the labels their create stamped on them
    shown,                \* the sandbox the last get or list projected from an object's labels
    task,                 \* pool mode: an entrypoint, its taskTemplate command, what sh makes of it
    call,                 \* the last call of a function of its arguments: what it was given and returned
    pcs,                  \* thread -> the statement it executes next
    locks,                \* _expiration_lock, _pending_lock, _execd_archive_lock: the holder
    execd_archive_cache,  \* self._execd_archive_cache: None, or the fetch that filled it
    execd_containers,     \* Docker daemon: the throwaway container of each thread's fetch
    fetches,              \* completed pull/create/start/read sequences
    provision,            \* each create_sandbox: its container, what it did, what it returned
    tracking              \* ids with an expiration timer registered

\* The variables of the step-by-step Kubernetes create.
readyVars == <<batchsandbox, wait>>

\* The variables of the label round trip.
labelVars == <<objects, shown>>

\* The variable of the pool-mode command.
quoteVars == <<task>>

\* The variable of the functions of their arguments.
callVars == <<call>>

\* The variables of the threads and locks.
threadVars == <<pcs, locks, execd_archive_cache, execd_containers, fetches, provision, tracking>>

auxVars == <<readyVars, labelVars, quoteVars, callVars, threadVars>>

vars == <<runtime, booted, now, used, containers, sandbox_expirations,
          expiration_timers, timers, pending_sandboxes, pending_cleanup_timers,
          workloads, renews, callbacks, resp, auxVars>>

\* The state of the Docker daemon and service, for the Kubernetes handlers.
dockerVars == <<containers, sandbox_expirations, expiration_timers, timers,
                pending_sandboxes, pending_cleanup_timers>>


\* ------------------------------------------------------------------ values
\* The value of the opensandbox.io/expires-at label: missing, the text written by
\* datetime.isoformat() for an instant, or text that is no timestamp.
NoLabel == [kind |-> "none", t |-> 0]
BadLabel == [kind |-> "bad", t |-> 0]
IsoFormat(t) == [kind |-> "iso", t |-> t]

\* parse_timestamp: an unparseable value gives the well-known epoch, never an error.
Epoch == 0
ParseTimestamp(l) == IF l.kind = "iso" THEN l.t ELSE Epoch

NoContainer == [exists |-> FALSE, status |-> "none", label |-> NoLabel, created |-> 0]
Container(st, lbl, cr) == [exists |-> TRUE, status |-> st, label |-> lbl, created |-> cr]

\* container.attrs["State"]: the daemon reports Running for a paused container too.
StateRunning(c) == c.status \in {"running", "paused"}
StatePaused(c) == c.status = "paused"

\* A PendingSandbox record; pc is the position of its provisioning worker.
NoPending ==
    [exists |-> FALSE, state |-> "none", reason |-> "none", created |-> 0, expires |-> 0,
     pc |-> "none"]
Pending(st, rs, cr, ex, pc) ==
    [exists |-> TRUE, state |-> st, reason |-> rs, created |-> cr, expires |-> ex, pc |-> pc]

\* A BatchSandbox resource: spec.expireTime and whether the controller reports it ready.
NoWorkload == [exists |-> FALSE, expireTime |-> NoLabel, ready |-> FALSE]
Workload(ex, rdy) == [exists |-> TRUE, expireTime |-> ex, ready |-> rdy]

Tm(id, at) == [id |-> id, at |-> at]

\* The request threads that call renew_expiration concurrently, and where a
\* thread stands in the call: not in it, after the lookup and the validation,
\* after _schedule_expiration, returned.
Threads == {"r1", "r2"}
Idle == [pc |-> "idle", id |-> "none", t |-> 0, code |-> "none", labelled |-> FALSE]

\* The expiration tracker as one value: the two dicts and the live Timer objects.
Tracker == [exp |-> sandbox_expirations, tm |-> expiration_timers, armed |-> timers]
EmptyTracker == [exp |-> [i \in Ids |-> 0], tm |-> [i \in Ids |-> 0], armed |-> {}]
SetTracker(tr) ==
    /\ sandbox_expirations' = tr.exp
    /\ expiration_timers' = tr.tm
    /\ timers' = tr.armed

\* A call and its answer: the operation and the id it was called with, the status
\* code (ok, 400, 404, 500, 504), and what the response body carries: the
\* expiration (the requested one for a renew), the origin and state of the
\* sandbox returned, the filter a list was called with and its items.
\* A BatchSandbox as the readiness wait reads it: status.ready, status.allocated
\* and the sandbox.opensandbox.io/endpoints annotation ("absent" = no such key,
\* otherwise the annotation's text).  failed is set only under a workload
\* provider whose get_status can report Failed.
NoBatchSandbox ==
    [exists |-> FALSE, ready |-> 0, allocated |-> 0, endpoints |-> "absent", failed |-> FALSE]
BatchSandbox(rdy, alloc, ep, failed) ==
    [exists |-> TRUE, ready |-> rdy, allocated |-> alloc, endpoints |-> ep, failed |-> failed]
NoWait ==
    [pc |-> "idle", id |-> "none", elapsed |-> 0, expires |-> 0, workload |-> NoBatchSandbox,
     err |-> "none", cleanup |-> "none"]

NoShown == [provider |-> "none", id |-> "none", given |-> << >>, metadata |-> << >>]

NoCall == [op |-> "none"]
NoTask == [pc |-> "none", entrypoint |-> << >>, command |-> << >>, parsed |-> << >>]

NoItems == << >>
Resp(op, id, code) ==
    [op |-> op, id |-> id, code |-> code, err |-> "none", t |-> 0, src |-> "none",
     state |-> "none", reason |-> "none", filter |-> {}, items |-> NoItems]

\* ------------------------------------------------------------------ tracker
\* Timer.cancel(): a timer that has not fired never will.
Cancel(armed, id, at) == IF at = 0 THEN armed ELSE armed \ {Tm(id, at)}

\* A scheduling that registers the new timer and leaves the one it replaces armed.
ScheduleExpirationKeepsOld(tr, id, expires_at) ==
    [exp |-> [tr.exp EXCEPT ![id] = expires_at],
     tm |-> [tr.tm EXCEPT ![id] = expires_at],
     armed |-> tr.armed \cup {Tm(id, expires_at)}]

\* _schedule_expiration: under the lock, pop and cancel the registered timer,
\* record the deadline, register the new timer; then start it.
ScheduleExpiration(tr, id, expires_at) ==
    [exp |-> [tr.exp EXCEPT ![id] = expires_at],
     tm |-> [tr.tm EXCEPT ![id] = expires_at],
     armed |-> Cancel(tr.armed, id, tr.tm[id]) \cup {Tm(id, expires_at)}]

\* A removal that forgets the deadline and the registration without cancelling
\* the timer.
RemoveExpirationTrackingNoCancel(tr, id) ==
    [exp |-> [tr.exp EXCEPT ![id] = 0],
     tm |-> [tr.tm EXCEPT ![id] = 0],
     armed |-> tr.armed]

\* A removal that pops and cancels the registered timer and leaves the deadline.
RemoveExpirationTrackingKeepsDeadline(tr, id) ==
    [exp |-> tr.exp,
     tm |-> [tr.tm EXCEPT ![id] = 0],
     armed |-> Cancel(tr.armed, id, tr.tm[id])]

\* _remove_expiration_tracking: pop and cancel the registered timer, pop the deadline.
RemoveExpirationTracking(tr, id) ==
    [exp |-> [tr.exp EXCEPT ![id] = 0],
     tm |-> [tr.tm EXCEPT ![id] = 0],
     armed |-> Cancel(tr.armed, id, tr.tm[id])]

\* _get_tracked_expiration: the tracked deadline, else the label, else the fallback.
GetTrackedExpiration(tr, id, label, fallback) ==
    IF tr.exp[id] # 0 THEN tr.exp[id]
    ELSE IF label.kind # "none" THEN ParseTimestamp(label)
    ELSE fallback

\* _get_container_by_sandbox_id: the container, 404 when the daemon lists none,
\* 500 when the daemon call raises.
LookupOutcomes(cs, id) == IF cs[id].exists THEN {"found", "500"} ELSE {"404", "500"}

\* What the daemon does to the container during _expire_sandbox, once found:
\* kill() when State.Running, then remove(force=True); either call may raise and
\* is only logged.
ExpireOutcomes == {"removed", "remove_failed", "kill_and_remove_failed"}
Killed(c) == IF StateRunning(c) THEN [c EXCEPT !.status = "exited"] ELSE c
ExpiredContainer(c, outcome) ==
    CASE outcome = "removed" -> NoContainer
      [] outcome = "remove_failed" -> Killed(c)
      [] OTHER -> c

\* _expire_sandbox: the timer callback.  Whatever the lookup or the daemon calls
\* do, the tracking of the id is removed at the end.
ExpireSandbox(cs, tr, id, lookup, outcome) ==
    IF lookup # "found"
    THEN [cs |-> cs, tr |-> RemoveExpirationTracking(tr, id)]
    ELSE [cs |-> [cs EXCEPT ![id] = ExpiredContainer(cs[id], outcome)],
          tr |-> RemoveExpirationTracking(tr, id)]


\* ------------------------------------------------------------------ start-up
\* Containers a previous process (or another tool) left on the daemon, carrying
\* the sandbox id label: with an expires-at label, without one, or with one that
\* does not parse.
PreExistingLabels == {NoLabel, BadLabel} \cup {IsoFormat(t) : t \in 1..MaxTime}
PreExisting ==
    {NoContainer} \cup {Container("running", l, 0) : l \in PreExistingLabels}

\* The threads of the Docker service and the locks they take.
\* Python's None where a text is expected; no text drawn below equals it.
Null == "None"

Workers == {"w1", "w2"}

Tasks == Workers \cup {"timer", "request", "cleanup"}

LockNames == {"expiration", "pending", "execd_archive"}

Free == "free"

DaemonCalls ==
    {"ensure_image", "create", "get", "fetch_image", "fetch_create", "fetch_start",
     "fetch_read", "fetch_remove", "copy", "bootstrap", "start", "remove_container",
     "lookup", "kill", "remove", "update_labels"}

\* Positions at which a thread stands before a `with lock:` statement.
LockWanted(pc) ==
    CASE pc \in {"schedule_lock", "untrack_lock", "tracked_lock"} -> "expiration"
      [] pc \in {"pending_lock"} -> "pending"
      [] pc = "fetch_lock" -> "execd_archive"
      [] OTHER -> Free

NoProvision ==
    [container |-> "none", labels |-> {}, execd |-> FALSE, bootstrap |-> FALSE,
     archive |-> Null, steps |-> << >>, result |-> "none"]

ThreadInit ==
    /\ pcs = [t \in Tasks |->
                    CASE t \in Workers -> "ensure_image"
                      [] t = "cleanup" -> "pending_lock"
                      [] OTHER -> "lookup"]
    /\ locks = [l \in LockNames |-> Free]
    /\ execd_archive_cache = Null
    /\ execd_containers = [w \in Workers |-> "none"]
    /\ fetches = 0
    /\ provision = [w \in Workers |-> NoProvision]
    /\ tracking = {"old"}

Init ==
    /\ runtime \in {"docker", "kubernetes"}
    /\ booted = (runtime = "kubernetes")
    /\ now = 0
    /\ containers \in [Ids -> PreExisting]
    /\ runtime = "kubernetes" => containers = [i \in Ids |-> NoContainer]
    /\ used = {i \in Ids : containers[i].exists}
    /\ sandbox_expirations = [i \in Ids |-> 0]
    /\ expiration_timers = [i \in Ids |-> 0]
    /\ timers = {}
    /\ pending_sandboxes = [i \in Ids |-> NoPending]
    /\ pending_cleanup_timers = [i \in Ids |-> 0]
    /\ workloads = [i \in Ids |-> NoWorkload]
    /\ batchsandbox = NoBatchSandbox
    /\ wait = NoWait
    /\ objects = {}
    /\ shown = NoShown
    /\ task = NoTask
    /\ call = NoCall
    /\ ThreadInit
    /\ renews = [th \in Threads |-> Idle]
    /\ callbacks = {}
    /\ resp = Resp("none", "none", "none")

\* _restore_existing_sandboxes, for one listed container: skip it when the label
\* is missing, expire it inline when the label is not in the future, else
\* schedule its timer.
RestoreOne(st, id, t, lookup, outcome) ==
    LET label == st.cs[id].label
        expires_at == ParseTimestamp(label)
    IN  IF ~st.cs[id].exists \/ label.kind = "none" THEN st
        ELSE IF expires_at <= t THEN ExpireSandbox(st.cs, st.tr, id, lookup, outcome)
        ELSE [cs |-> st.cs, tr |-> ScheduleExpiration(st.tr, id, expires_at)]

RECURSIVE RestoreAll(_, _, _, _, _)
RestoreAll(st, ids, t, lookups, outcomes) ==
    IF ids = {} THEN st
    ELSE LET id == CHOOSE i \in ids : TRUE
         IN  RestoreAll(RestoreOne(st, id, t, lookups[id], outcomes[id]),
                        ids \ {id}, t, lookups, outcomes)

\* DockerSandboxService.__init__: fresh tracker and pending registry, then
\* _restore_existing_sandboxes (which gives up when the daemon cannot list).
Startup ==
    /\ runtime = "docker" /\ ~booted
    /\ \E listOk \in BOOLEAN, lookups \in [Ids -> {"found", "500"}],
          outcomes \in [Ids -> ExpireOutcomes] :
         LET st0 == [cs |-> containers, tr |-> EmptyTracker]
             st == IF listOk THEN RestoreAll(st0, Ids, now, lookups, outcomes) ELSE st0
         IN  /\ containers' = st.cs
             /\ SetTracker(st.tr)
    /\ booted' = TRUE
    /\ pending_sandboxes' = [i \in Ids |-> NoPending]
    /\ pending_cleanup_timers' = [i \in Ids |-> 0]
    /\ resp' = Resp("startup", "none", "ok")
    /\ UNCHANGED <<auxVars, renews, callbacks, runtime, now, used, workloads>>

\* ------------------------------------------------------------------ create
\* A label key: an optional DNS prefix and, after the slash, a name, given as
\* its words and the spaces between them.
Key(prefix, name) == [prefix |-> prefix, name |-> name]
BadKey == Key("", <<"Bad", " ", "Key">>)

\* ensure_entrypoint: a non-empty sequence of non-empty strings.
EnsureEntrypoint(entrypoint) ==
    Len(entrypoint) > 0 /\ \A i \in 1..Len(entrypoint) : entrypoint[i] # ""

\* The label key rule, as far as the requests drawn here exercise it: a name
\* is not empty and holds no space.
ValidLabelKey(k) == Len(k.name) > 0 /\ \A i \in 1..Len(k.name) : k.name[i] # " "

\* ensure_metadata_labels: every key is a label key, every value is not blank.
EnsureMetadataLabels(metadata) ==
    \A k \in DOMAIN metadata : ValidLabelKey(k) /\ metadata[k] \notin {"", " "}

\* The two validations create_sandbox starts with, in the order of the code:
\* the code of the first one that fails, "none" when both pass.
ValidateCreate(request) ==
    IF ~EnsureEntrypoint(request.entrypoint) THEN "DOCKER::INVALID_ENTRYPOINT"
    ELSE IF ~EnsureMetadataLabels(request.metadata) THEN "SANDBOX::INVALID_METADATA_LABEL"
    ELSE "none"

\* The create requests drawn: a valid one, and the ones the validations reject.
NoMetadata == << >>
ValidRequest == [entrypoint |-> <<"python">>, metadata |-> NoMetadata]
Requests ==
    {[entrypoint |-> ep, metadata |-> md] :
        ep \in {<<"python">>, << >>}, md \in {NoMetadata, (BadKey :> "ok")}}

\* Where _provision_sandbox can fail: the image cannot be made available, the
\* daemon refuses create_container, containers.get raises, the execd copy or the
\* bootstrap install fails, start raises.  "none": every step succeeds.
ProvisionFailures == {"none", "image", "create", "get", "execd", "bootstrap", "start"}

\* _provision_sandbox.  The cleanup remove(force=True) runs for a DockerException
\* only; the execd and bootstrap helpers raise HTTPException.
ProvisionSandbox(cs, tr, id, created_at, expires_at, failure, cleanupOk) ==
    LET made == Container("created", IsoFormat(expires_at), created_at)
        left == IF failure \in {"execd", "bootstrap"} \/ ~cleanupOk
                THEN [cs EXCEPT ![id] = made]
                ELSE cs
    IN  CASE failure = "none" ->
               [ok |-> TRUE, code |-> "ok",
                cs |-> [cs EXCEPT ![id] = [made EXCEPT !.status = "running"]],
                tr |-> ScheduleExpiration(tr, id, expires_at)]
          [] failure \in {"image", "create"} ->
               [ok |-> FALSE, code |-> "500", cs |-> cs, tr |-> tr]
          [] OTHER ->
               [ok |-> FALSE, code |-> "500", cs |-> left, tr |-> tr]

\* A create_sandbox that provisions first and validates the request afterwards.
CreateSandboxProvisionsFirst(request, timeout, failure, cleanupOk) ==
    /\ runtime = "docker" /\ booted
    /\ now + timeout <= MaxTime
    /\ \E id \in Ids \ used :
          LET r == ProvisionSandbox(containers, Tracker, id, now, now + timeout,
                                    failure, cleanupOk)
          IN  /\ used' = used \cup {id}
              /\ containers' = r.cs
              /\ SetTracker(r.tr)
              /\ resp' = IF ValidateCreate(request) # "none"
                         THEN [Resp("create", "none", "400") EXCEPT
                                 !.err = ValidateCreate(request)]
                         ELSE [Resp("create", id, r.code) EXCEPT
                                 !.t = IF r.ok THEN now + timeout ELSE 0,
                                 !.state = IF r.ok THEN "Running" ELSE "none"]
    /\ UNCHANGED <<auxVars, renews, callbacks, runtime, booted, now, pending_sandboxes,
                   pending_cleanup_timers, workloads>>

\* create_sandbox (Docker): validate, generate the id, stamp created_at and
\* expires_at = created_at + timeout, provision synchronously.
CreateSandbox(request, timeout, failure, cleanupOk) ==
    /\ runtime = "docker" /\ booted
    /\ now + timeout <= MaxTime
    /\ IF ValidateCreate(request) # "none"
       THEN /\ resp' = [Resp("create", "none", "400") EXCEPT !.err = ValidateCreate(request)]
            /\ UNCHANGED <<used, containers, sandbox_expirations, expiration_timers, timers>>
       ELSE \E id \in Ids \ used :
              LET r == ProvisionSandbox(containers, Tracker, id, now, now + timeout,
                                        failure, cleanupOk)
              IN  /\ used' = used \cup {id}
                  /\ containers' = r.cs
                  /\ SetTracker(r.tr)
                  /\ resp' = [Resp("create", id, r.code) EXCEPT
                                !.t = IF r.ok THEN now + timeout ELSE 0,
                                !.state = IF r.ok THEN "Running" ELSE "none"]
    /\ UNCHANGED <<auxVars, renews, callbacks, runtime, booted, now, pending_sandboxes, pending_cleanup_timers, workloads>>


\* ------------------------------------------------------------------ renew
\* ensure_future_expiration: a timestamp that is not after now is rejected (400).
EnsureFutureExpiration(t, current) == t > current

\* A renew that replaces the timer before it validates the requested time.
RenewExpirationSchedulesFirst(id, t, lookup, updateOk) ==
    /\ runtime = "docker" /\ booted
    /\ lookup \in LookupOutcomes(containers, id)
    /\ IF lookup # "found"
       THEN /\ resp' = Resp("renew", id, lookup)
            /\ UNCHANGED <<containers, sandbox_expirations, expiration_timers, timers>>
       ELSE /\ SetTracker(ScheduleExpiration(Tracker, id, t))
            /\ containers' = IF updateOk /\ EnsureFutureExpiration(t, now)
                             THEN [containers EXCEPT ![id].label = IsoFormat(t)]
                             ELSE containers
            /\ resp' = [Resp("renew", id, IF EnsureFutureExpiration(t, now) THEN "ok" ELSE "400")
                           EXCEPT !.t = t]
    /\ UNCHANGED <<auxVars, renews, callbacks, runtime, booted, now, used, pending_sandboxes,
                   pending_cleanup_timers, workloads>>

\* renew_expiration (Docker): look the container up, validate the new time,
\* replace the timer, then write the expires-at label; a failed label update is
\* logged and the call still returns the new expiration.
RenewExpiration(id, t, lookup, updateOk) ==
    /\ runtime = "docker" /\ booted
    /\ lookup \in LookupOutcomes(containers, id)
    /\ IF lookup # "found"
       THEN /\ resp' = Resp("renew", id, lookup)
            /\ UNCHANGED <<containers, sandbox_expirations, expiration_timers, timers>>
       ELSE IF ~EnsureFutureExpiration(t, now)
       THEN /\ resp' = [Resp("renew", id, "400") EXCEPT !.t = t]
            /\ UNCHANGED <<containers, sandbox_expirations, expiration_timers, timers>>
       ELSE /\ SetTracker(ScheduleExpiration(Tracker, id, t))
            /\ containers' = IF updateOk
                             THEN [containers EXCEPT ![id].label = IsoFormat(t)]
                             ELSE containers
            /\ resp' = [Resp("renew", id, "ok") EXCEPT !.t = t]
    /\ UNCHANGED <<auxVars, renews, callbacks, runtime, booted, now, used, pending_sandboxes, pending_cleanup_timers, workloads>>

\* ------------------------------------------------------------------ delete
\* What the daemon does during delete_sandbox once the container is found:
\* kill() (an "is not running" error is ignored, any other is raised), then
\* remove(force=True).
DeleteOutcomes == {"removed", "kill_failed", "remove_failed"}
\* A delete whose remove leaves the container behind without raising.
DeletedContainerLeftBehind(c, outcome) ==
    CASE outcome = "kill_failed" -> c
      [] OTHER -> Killed(c)

DeletedContainer(c, outcome) ==
    CASE outcome = "removed" -> NoContainer
      [] outcome = "remove_failed" -> Killed(c)
      [] OTHER -> c

\* delete_sandbox (Docker): the lookup is outside the try; the finally clause
\* removes the expiration tracking whether kill/remove succeeded or raised.
DeleteSandbox(id, lookup, outcome) ==
    /\ runtime = "docker" /\ booted
    /\ lookup \in LookupOutcomes(containers, id)
    /\ IF lookup # "found"
       THEN /\ resp' = Resp("delete", id, lookup)
            /\ UNCHANGED <<containers, sandbox_expirations, expiration_timers, timers>>
       ELSE /\ containers' = [containers EXCEPT ![id] = DeletedContainer(@, outcome)]
            /\ SetTracker(RemoveExpirationTracking(Tracker, id))
            /\ resp' = Resp("delete", id, IF outcome = "removed" THEN "ok" ELSE "500")
    /\ UNCHANGED <<auxVars, renews, callbacks, runtime, booted, now, used, pending_sandboxes, pending_cleanup_timers, workloads>>

\* ------------------------------------------------------------------ pause, resume
\* container.pause() on the daemon: a running container that is not paused is
\* paused; the daemon refuses to pause a paused container, and any call may
\* fail.  The result is the container afterwards and whether the call raised.
DaemonPause(c, daemonOk) ==
    IF daemonOk /\ c.status = "running"
    THEN [ok |-> TRUE, c |-> [c EXCEPT !.status = "paused"]]
    ELSE [ok |-> FALSE, c |-> c]

\* container.unpause() on the daemon.
DaemonUnpause(c, daemonOk) ==
    IF daemonOk /\ c.status = "paused"
    THEN [ok |-> TRUE, c |-> [c EXCEPT !.status = "running"]]
    ELSE [ok |-> FALSE, c |-> c]

\* A pause that also drops the expiration tracking of the sandbox.
PauseSandboxDropsTracking(id, lookup, daemonOk) ==
    /\ runtime = "docker" /\ booted
    /\ lookup \in LookupOutcomes(containers, id)
    /\ IF lookup # "found"
       THEN /\ resp' = Resp("pause", id, lookup)
            /\ UNCHANGED <<containers, sandbox_expirations, expiration_timers, timers>>
       ELSE IF ~StateRunning(containers[id])
       THEN /\ resp' = [Resp("pause", id, "409") EXCEPT !.err = "DOCKER::SANDBOX_NOT_RUNNING"]
            /\ UNCHANGED <<containers, sandbox_expirations, expiration_timers, timers>>
       ELSE LET r == DaemonPause(containers[id], daemonOk)
            IN  /\ containers' = [containers EXCEPT ![id] = r.c]
                /\ SetTracker(RemoveExpirationTracking(Tracker, id))
                /\ resp' = IF r.ok THEN Resp("pause", id, "ok")
                           ELSE [Resp("pause", id, "500") EXCEPT
                                   !.err = "DOCKER::SANDBOX_PAUSE_FAILED"]
    /\ UNCHANGED <<auxVars, renews, callbacks, runtime, booted, now, used, pending_sandboxes,
                   pending_cleanup_timers, workloads>>

\* pause_sandbox: look the container up, refuse with 409 unless State.Running,
\* then container.pause(); a daemon error is a 500.
PauseSandbox(id, lookup, daemonOk) ==
    /\ runtime = "docker" /\ booted
    /\ lookup \in LookupOutcomes(containers, id)
    /\ IF lookup # "found"
       THEN /\ resp' = Resp("pause", id, lookup)
            /\ UNCHANGED containers
       ELSE IF ~StateRunning(containers[id])
       THEN /\ resp' = [Resp("pause", id, "409") EXCEPT !.err = "DOCKER::SANDBOX_NOT_RUNNING"]
            /\ UNCHANGED containers
       ELSE LET r == DaemonPause(containers[id], daemonOk)
            IN  /\ containers' = [containers EXCEPT ![id] = r.c]
                /\ resp' = IF r.ok THEN Resp("pause", id, "ok")
                           ELSE [Resp("pause", id, "500") EXCEPT
                                   !.err = "DOCKER::SANDBOX_PAUSE_FAILED"]
    /\ UNCHANGED <<auxVars, renews, callbacks, runtime, booted, now, used, sandbox_expirations,
                   expiration_timers, timers, pending_sandboxes, pending_cleanup_timers,
                   workloads>>

\* resume_sandbox: look the container up, refuse with 409 unless State.Paused,
\* then container.unpause(); a daemon error is a 500.
ResumeSandbox(id, lookup, daemonOk) ==
    /\ runtime = "docker" /\ booted
    /\ lookup \in LookupOutcomes(containers, id)
    /\ IF lookup # "found"
       THEN /\ resp' = Resp("resume", id, lookup)
            /\ UNCHANGED containers
       ELSE IF ~StatePaused(containers[id])
       THEN /\ resp' = [Resp("resume", id, "409") EXCEPT !.err = "DOCKER::SANDBOX_NOT_PAUSED"]
            /\ UNCHANGED containers
       ELSE LET r == DaemonUnpause(containers[id], daemonOk)
            IN  /\ containers' = [containers EXCEPT ![id] = r.c]
                /\ resp' = IF r.ok THEN Resp("resume", id, "ok")
                           ELSE [Resp("resume", id, "500") EXCEPT
                                   !.err = "DOCKER::SANDBOX_RESUME_FAILED"]
    /\ UNCHANGED <<auxVars, renews, callbacks, runtime, booted, now, used, sandbox_expirations,
                   expiration_timers, timers, pending_sandboxes, pending_cleanup_timers,
                   workloads>>

\* ------------------------------------------------------------------ timers
\* A scheduled Timer whose delay has elapsed fires and runs _expire_sandbox.
TimerFire(id, at, lookup, outcome) ==
    /\ runtime = "docker" /\ booted
    /\ Tm(id, at) \in timers
    /\ now >= at
    /\ lookup \in LookupOutcomes(containers, id)
    /\ LET fired == [Tracker EXCEPT !.armed = @ \ {Tm(id, at)}]
           r == ExpireSandbox(containers, fired, id, lookup, outcome)
       IN  /\ containers' = r.cs
           /\ SetTracker(r.tr)
    /\ resp' = Resp("expire", id, lookup)
    /\ UNCHANGED <<auxVars, renews, callbacks, runtime, booted, now, used, pending_sandboxes, pending_cleanup_timers, workloads>>

\* Time passes.
Tick ==
    /\ booted
    /\ now < MaxTime
    /\ now' = now + 1
    /\ UNCHANGED <<auxVars, renews, callbacks, runtime, booted, used, dockerVars, workloads, resp>>


\* ------------------------------------------------------------------ pending
\* PENDING_FAILURE_TTL_SECONDS, in clock units.
PendingFailureTTL == 1

\* _remove_pending_sandbox: pop and cancel the cleanup timer, pop the record.
RemovePendingSandbox(id) ==
    /\ pending_cleanup_timers' = [pending_cleanup_timers EXCEPT ![id] = 0]
    /\ pending_sandboxes' = [pending_sandboxes EXCEPT ![id] = NoPending]

\* Asynchronous provisioning starts: the id and timestamps are stamped, a Pending
\* record is installed and the caller gets a Pending response; the worker runs later.
StartAsyncProvision(timeout) ==
    /\ runtime = "docker" /\ booted
    /\ now + timeout <= MaxTime
    /\ \E id \in Ids \ used :
         /\ used' = used \cup {id}
         /\ pending_sandboxes' =
              [pending_sandboxes EXCEPT ![id] = Pending("Pending", "SANDBOX_SCHEDULED", now, now + timeout, "queued")]
         /\ resp' = [Resp("create", id, "ok") EXCEPT !.t = now + timeout, !.state = "Pending"]
    /\ UNCHANGED <<auxVars, renews, callbacks, runtime, booted, now, containers, sandbox_expirations,
                   expiration_timers, timers, pending_cleanup_timers, workloads>>

\* _mark_pending_failed: the record of the id, when there is one, takes the status
\* Failed / PROVISIONING_ERROR.
MarkPendingFailed(ps, id) ==
    IF ps[id].exists
    THEN [ps EXCEPT ![id].state = "Failed", ![id].reason = "PROVISIONING_ERROR"]
    ELSE ps

\* _cleanup_failed_containers: list the containers of the id and remove(force=True)
\* each; a daemon error is logged and the container stays.
CleanupFailedContainers(cs, id, removed) ==
    IF removed THEN [cs EXCEPT ![id] = NoContainer] ELSE cs

\* _async_provision_worker, up to the return of _provision_sandbox: on an error
\* the record is marked Failed/PROVISIONING_ERROR, leftover containers are cleaned
\* up and the record's cleanup timer is armed for the pending TTL.
AsyncProvisionWorker(id, failure, cleanupOk, removed) ==
    /\ runtime = "docker" /\ booted
    /\ pending_sandboxes[id].pc = "queued"
    /\ LET p == pending_sandboxes[id]
           r == ProvisionSandbox(containers, Tracker, id, p.created, p.expires,
                                 failure, cleanupOk)
       IN  IF r.ok
           THEN /\ containers' = r.cs
                /\ SetTracker(r.tr)
                /\ pending_sandboxes' = [pending_sandboxes EXCEPT ![id].pc = "provisioned"]
                /\ UNCHANGED pending_cleanup_timers
           ELSE /\ containers' = CleanupFailedContainers(r.cs, id, removed)
                /\ SetTracker(r.tr)
                /\ pending_sandboxes' =
                     [MarkPendingFailed(pending_sandboxes, id) EXCEPT ![id].pc = "done"]
                /\ pending_cleanup_timers' =
                     [pending_cleanup_timers EXCEPT ![id] = now + PendingFailureTTL]
    /\ resp' = Resp("worker", id, IF failure = "none" THEN "ok" ELSE "500")
    /\ UNCHANGED <<auxVars, renews, callbacks, runtime, booted, now, used, workloads>>

\* _async_provision_worker, the else branch: the container is authoritative now,
\* the pending record is removed.
AsyncProvisionFinish(id) ==
    /\ runtime = "docker" /\ booted
    /\ pending_sandboxes[id].pc = "provisioned"
    /\ RemovePendingSandbox(id)
    /\ resp' = Resp("worker", id, "done")
    /\ UNCHANGED <<auxVars, renews, callbacks, runtime, booted, now, used, containers, sandbox_expirations,
                   expiration_timers, timers, workloads>>

\* The cleanup timer of a failed pending record fires: the record is forgotten.
PendingCleanupFire(id) ==
    /\ runtime = "docker" /\ booted
    /\ pending_cleanup_timers[id] # 0
    /\ now >= pending_cleanup_timers[id]
    /\ RemovePendingSandbox(id)
    /\ resp' = Resp("forget", id, "ok")
    /\ UNCHANGED <<auxVars, renews, callbacks, runtime, booted, now, used, containers, sandbox_expirations,
                   expiration_timers, timers, workloads>>

\* ------------------------------------------------------------------ reads
\* str.lower on the status texts the daemon can report.
Lower(text) ==
    CASE text = "Exited" -> "exited"
      [] text = "Created" -> "created"
      [] OTHER -> text

\* ExitCode absent from the State section (status_section.get("ExitCode") is None).
NoExitCode == -1

\* A projection that calls every exited container Failed.
StatusProjectionIgnoresExitCode(state) ==
    LET status_value == Lower(state.Status)
    IN  IF state.Running /\ ~state.Paused
        THEN [state |-> "Running", reason |-> "CONTAINER_RUNNING"]
        ELSE IF state.Paused THEN [state |-> "Paused", reason |-> "CONTAINER_PAUSED"]
        ELSE IF state.Restarting
        THEN [state |-> "Running", reason |-> "CONTAINER_RESTARTING"]
        ELSE IF status_value \in {"created", "starting"}
        THEN [state |-> "Pending", reason |-> "CONTAINER_STARTING"]
        ELSE IF status_value \in {"exited", "dead"}
        THEN [state |-> "Failed", reason |-> "CONTAINER_EXITED_ERROR"]
        ELSE [state |-> "Unknown", reason |-> "CONTAINER_STATE_UNKNOWN"]

\* _container_to_sandbox, the status projection from the State section of the
\* daemon's report: Status, Running, Paused, Restarting, ExitCode.
StatusProjection(state) ==
    LET status_value == Lower(state.Status)
    IN  IF state.Running /\ ~state.Paused
        THEN [state |-> "Running", reason |-> "CONTAINER_RUNNING"]
        ELSE IF state.Paused THEN [state |-> "Paused", reason |-> "CONTAINER_PAUSED"]
        ELSE IF state.Restarting
        THEN [state |-> "Running", reason |-> "CONTAINER_RESTARTING"]
        ELSE IF status_value \in {"created", "starting"}
        THEN [state |-> "Pending", reason |-> "CONTAINER_STARTING"]
        ELSE IF status_value \in {"exited", "dead"}
        THEN IF state.ExitCode = 0
             THEN [state |-> "Terminated", reason |-> "CONTAINER_EXITED"]
             ELSE [state |-> "Failed", reason |-> "CONTAINER_EXITED_ERROR"]
        ELSE [state |-> "Unknown", reason |-> "CONTAINER_STATE_UNKNOWN"]

\* The State section of a container of the lifecycle model: it is never
\* restarting, and it exits only by being killed (exit code 137).
StateSection(c) ==
    [Status |-> c.status, Running |-> StateRunning(c), Paused |-> StatePaused(c),
     Restarting |-> FALSE, ExitCode |-> IF c.status = "exited" THEN 137 ELSE 0]

ContainerState(c) == StatusProjection(StateSection(c)).state
ContainerReason(c) == StatusProjection(StateSection(c)).reason

ContainerToSandbox(cs, tr, id) ==
    [id |-> id, src |-> "container", state |-> ContainerState(cs[id]),
     reason |-> ContainerReason(cs[id]),
     created |-> cs[id].created,
     expires |-> GetTrackedExpiration(tr, id, cs[id].label, cs[id].created)]

\* _pending_to_sandbox: the sandbox projected from a pending record.
PendingToSandbox(ps, id) ==
    [id |-> id, src |-> "pending", state |-> ps[id].state, reason |-> ps[id].reason,
     created |-> ps[id].created, expires |-> ps[id].expires]

\* A get_sandbox that consults the pending registry first.
GetSandboxResultPendingFirst(cs, tr, ps, id, lookup) ==
    IF lookup = "500" THEN Resp("get", id, lookup)
    ELSE IF ps[id].exists
    THEN LET sb == PendingToSandbox(ps, id)
         IN  [Resp("get", id, "ok") EXCEPT !.src = sb.src, !.state = sb.state,
                                          !.reason = sb.reason, !.t = sb.expires]
    ELSE IF lookup = "found"
    THEN LET sb == ContainerToSandbox(cs, tr, id)
         IN  [Resp("get", id, "ok") EXCEPT !.src = sb.src, !.state = sb.state,
                                          !.reason = sb.reason, !.t = sb.expires]
    ELSE Resp("get", id, lookup)

\* get_sandbox: the container when the lookup finds one; the pending record only
\* when the lookup reports not-found; any other lookup error is raised.
GetSandboxResult(cs, tr, ps, id, lookup) ==
    IF lookup = "found"
    THEN LET sb == ContainerToSandbox(cs, tr, id)
         IN  [Resp("get", id, "ok") EXCEPT !.src = sb.src, !.state = sb.state,
                                          !.reason = sb.reason, !.t = sb.expires]
    ELSE IF lookup = "404" /\ ps[id].exists
    THEN LET sb == PendingToSandbox(ps, id)
         IN  [Resp("get", id, "ok") EXCEPT !.src = sb.src, !.state = sb.state,
                                          !.reason = sb.reason, !.t = sb.expires]
    ELSE Resp("get", id, lookup)

GetSandbox(id, lookup) ==
    /\ runtime = "docker" /\ booted
    /\ lookup \in LookupOutcomes(containers, id)
    /\ resp' = GetSandboxResult(containers, Tracker, pending_sandboxes, id, lookup)
    /\ UNCHANGED <<auxVars, renews, callbacks, runtime, booted, now, used, dockerVars, workloads>>


\* ------------------------------------------------------------------ list
\* matches_filter, on the state part of the filter: an empty state list matches
\* every sandbox, otherwise the sandbox's state must be one of the listed states.
MatchesFilter(sb, filter) == filter = {} \/ sb.state \in filter

\* sandboxes_by_id[sandbox_id] = sandbox_obj on a dict kept in insertion order: a
\* key already present keeps its position and takes the new value.
DictPut(items, sb) ==
    IF \E k \in 1..Len(items) : items[k].id = sb.id
    THEN [k \in 1..Len(items) |-> IF items[k].id = sb.id THEN sb ELSE items[k]]
    ELSE Append(items, sb)

\* The loop over the daemon's containers: every container's id is recorded in
\* container_ids; its projection is kept when it matches the filter.
RECURSIVE CollectContainers(_, _, _, _, _)
CollectContainers(cs, tr, order, filter, acc) ==
    IF order = << >> THEN acc
    ELSE LET id == Head(order)
             sb == ContainerToSandbox(cs, tr, id)
             nxt == IF ~cs[id].exists THEN acc
                    ELSE [ids |-> acc.ids \cup {id},
                          items |-> IF MatchesFilter(sb, filter)
                                    THEN DictPut(acc.items, sb) ELSE acc.items]
         IN  CollectContainers(cs, tr, Tail(order), filter, nxt)

\* A dedupe that looks the id up among the items kept so far, not among the ids
\* of the containers seen.
ShadowedByKeptItem(acc, id) == \E k \in 1..Len(acc.items) : acc.items[k].id = id

\* Whether the loop over the pending records skips a record: a record whose id
\* has a container is skipped regardless of the filter outcome.
ShadowedByContainer(acc, id) == id \in acc.ids

\* The loop over the pending records.
RECURSIVE CollectPending(_, _, _, _)
CollectPending(ps, order, filter, acc) ==
    IF order = << >> THEN acc
    ELSE LET id == Head(order)
             sb == PendingToSandbox(ps, id)
             nxt == IF ~ps[id].exists \/ ShadowedByContainer(acc, id) THEN acc
                    ELSE [ids |-> acc.ids,
                          items |-> IF MatchesFilter(sb, filter)
                                    THEN DictPut(acc.items, sb) ELSE acc.items]
         IN  CollectPending(ps, Tail(order), filter, nxt)

\* A sort that leaves the runtime's order as it is.
KeepOrder(items) == items

\* list.sort(key=created_at, reverse=True): newest first, stable.
RECURSIVE InsertByCreated(_, _)
InsertByCreated(sorted, sb) ==
    IF sorted = << >> THEN <<sb>>
    ELSE IF Head(sorted).created >= sb.created
         THEN <<Head(sorted)>> \o InsertByCreated(Tail(sorted), sb)
         ELSE <<sb>> \o sorted

RECURSIVE SortByCreatedDesc(_)
SortByCreatedDesc(items) ==
    IF items = << >> THEN << >>
    ELSE InsertByCreated(SortByCreatedDesc(SubSeq(items, 1, Len(items) - 1)),
                         items[Len(items)])

\* The request's pagination, absent or {page, page_size}.
NoPagination == [page |-> 0, size |-> 0]
DefaultPage == 1
DefaultPageSize == 20

Min(a, b) == IF a < b THEN a ELSE b
CeilDiv(a, b) == (a + b - 1) \div b

\* A pagination whose first page starts after the first page_size items.
PaginateFromNextPage(sandboxes, pg) ==
    LET page == IF pg # NoPagination THEN pg.page ELSE DefaultPage
        page_size == IF pg # NoPagination THEN pg.size ELSE DefaultPageSize
        total_items == Len(sandboxes)
        total_pages == IF total_items # 0 THEN CeilDiv(total_items, page_size) ELSE 0
        start_index == page * page_size
        end_index == start_index + page_size
    IN  [items |-> SubSeq(sandboxes, start_index + 1, Min(end_index, total_items)),
         page |-> page, page_size |-> page_size, total_items |-> total_items,
         total_pages |-> total_pages, has_next_page |-> page < total_pages]

\* list_sandboxes (Docker), from the collected items to the response page.
Paginate(sandboxes, pg) ==
    LET page == IF pg # NoPagination THEN pg.page ELSE DefaultPage
        page_size == IF pg # NoPagination THEN pg.size ELSE DefaultPageSize
        total_items == Len(sandboxes)
        total_pages == IF total_items # 0 THEN CeilDiv(total_items, page_size) ELSE 0
        start_index == (page - 1) * page_size
        end_index == start_index + page_size
    IN  [items |-> SubSeq(sandboxes, start_index + 1, Min(end_index, total_items)),
         page |-> page, page_size |-> page_size, total_items |-> total_items,
         total_pages |-> total_pages, has_next_page |-> page < total_pages]

ListSandboxesItems(cs, tr, ps, order, filter) ==
    LET fromContainers == CollectContainers(cs, tr, order, filter,
                                            [ids |-> {}, items |-> << >>])
        all == CollectPending(ps, order, filter, fromContainers)
    IN  SortByCreatedDesc(all.items)

\* list_sandboxes (Docker).  order: the order in which the daemon lists the
\* containers and the registry iterates its records.
ListSandboxes(order, filter, pg, listOk) ==
    /\ runtime = "docker" /\ booted
    /\ resp' = IF ~listOk THEN Resp("list", "none", "500")
               ELSE LET r == Paginate(ListSandboxesItems(containers, Tracker,
                                          pending_sandboxes, order, filter), pg)
                    IN  [Resp("list", "none", "ok") EXCEPT !.filter = filter,
                                                           !.items = r.items]
    /\ UNCHANGED <<auxVars, renews, callbacks, runtime, booted, now, used, dockerVars, workloads>>

Orders == {<<"s1">>}
StateFilters == {{}, {"Running"}, {"Pending", "Failed"}}


\* ------------------------------------------------------------------ kubernetes
\* How a Kubernetes create_sandbox can end: the workload becomes ready, the API
\* refuses create_workload, or the readiness wait fails and the best-effort
\* delete_workload removes the workload or fails to.
K8sCreateOutcomes == {"ready", "create_failed", "wait_failed", "wait_failed_cleanup_failed"}

\* create_sandbox (Kubernetes).
K8sCreateSandbox(request, timeout, outcome) ==
    /\ runtime = "kubernetes" /\ booted
    /\ now + timeout <= MaxTime
    /\ IF ValidateCreate(request) # "none"
       THEN /\ resp' = [Resp("create", "none", "400") EXCEPT !.err = ValidateCreate(request)]
            /\ UNCHANGED <<used, workloads>>
       ELSE \E id \in Ids \ used :
              /\ used' = used \cup {id}
              /\ workloads' =
                   CASE outcome = "ready" ->
                          [workloads EXCEPT ![id] = Workload(IsoFormat(now + timeout), TRUE)]
                     [] outcome = "wait_failed_cleanup_failed" ->
                          [workloads EXCEPT ![id] = Workload(IsoFormat(now + timeout), FALSE)]
                     [] OTHER -> workloads
              /\ resp' = IF outcome = "ready"
                         THEN [Resp("create", id, "ok") EXCEPT !.t = now + timeout,
                                                               !.state = "Running"]
                         ELSE Resp("create", id, IF outcome = "create_failed" THEN "500" ELSE "504")
    /\ UNCHANGED <<auxVars, renews, callbacks, runtime, booted, now, dockerVars>>

\* renew_expiration (Kubernetes): validate the new time first, then look the
\* workload up and patch spec.expireTime.
K8sRenewExpiration(id, t, apiOk) ==
    /\ runtime = "kubernetes" /\ booted
    /\ IF ~EnsureFutureExpiration(t, now)
       THEN /\ resp' = [Resp("renew", id, "400") EXCEPT !.t = t]
            /\ UNCHANGED workloads
       ELSE IF ~apiOk
       THEN /\ resp' = Resp("renew", id, "500")
            /\ UNCHANGED workloads
       ELSE IF ~workloads[id].exists
       THEN /\ resp' = Resp("renew", id, "404")
            /\ UNCHANGED workloads
       ELSE /\ workloads' = [workloads EXCEPT ![id].expireTime = IsoFormat(t)]
            /\ resp' = [Resp("renew", id, "ok") EXCEPT !.t = t]
    /\ UNCHANGED <<auxVars, renews, callbacks, runtime, booted, now, used, dockerVars>>

\* delete_sandbox (Kubernetes): delete_workload raises "not found" when
\* get_workload returns nothing, which the service maps to 404; any other
\* error is a 500.
K8sDeleteSandbox(id, apiOk) ==
    /\ runtime = "kubernetes" /\ booted
    /\ IF ~apiOk
       THEN /\ resp' = Resp("delete", id, "500")
            /\ UNCHANGED workloads
       ELSE IF ~workloads[id].exists
       THEN /\ resp' = Resp("delete", id, "404")
            /\ UNCHANGED workloads
       ELSE /\ workloads' = [workloads EXCEPT ![id] = NoWorkload]
            /\ resp' = Resp("delete", id, "ok")
    /\ UNCHANGED <<auxVars, renews, callbacks, runtime, booted, now, used, dockerVars>>

\* ------------------------------------------------------------------ next
\* The handlers' inputs.  An input that the handler does not reach (the daemon
\* outcome of a call that is not made) is fixed, so that each behaviour of the
\* code is generated once.
Create ==
    \E request \in Requests, timeout \in Timeouts, failure \in ProvisionFailures,
       cleanupOk \in BOOLEAN :
         /\ request # ValidRequest => (failure = "none" /\ cleanupOk)
         /\ failure \notin {"get", "start"} => cleanupOk
         /\ CreateSandbox(request, timeout, failure, cleanupOk)

Renew ==
    \E id \in Ids, t \in Times, lookup \in {"found", "404", "500"}, updateOk \in BOOLEAN :
         /\ (lookup # "found" \/ t <= now) => updateOk
         /\ RenewExpiration(id, t, lookup, updateOk)

Delete ==
    \E id \in Ids, lookup \in {"found", "404", "500"}, outcome \in DeleteOutcomes :
         /\ lookup # "found" => outcome = "removed"
         /\ DeleteSandbox(id, lookup, outcome)

Expire ==
    \E id \in Ids, at \in Times, lookup \in {"found", "404", "500"},
       outcome \in ExpireOutcomes :
         /\ lookup # "found" => outcome = "removed"
         /\ TimerFire(id, at, lookup, outcome)

AsyncCreate == \E timeout \in Timeouts : StartAsyncProvision(timeout)

AsyncWorker ==
    \E id \in Ids, failure \in ProvisionFailures, cleanupOk \in BOOLEAN, removed \in BOOLEAN :
         /\ failure \notin {"get", "start"} => cleanupOk
         /\ failure = "none" => removed
         /\ AsyncProvisionWorker(id, failure, cleanupOk, removed)

AsyncFinish == \E id \in Ids : AsyncProvisionFinish(id)

PendingCleanup == \E id \in Ids : PendingCleanupFire(id)

Get == \E id \in Ids, lookup \in {"found", "404", "500"} : GetSandbox(id, lookup)

List ==
    \E order \in Orders, filter \in StateFilters, listOk \in BOOLEAN :
         /\ ~listOk => filter = {}
         /\ ListSandboxes(order, filter, NoPagination, listOk)

K8sCreate ==
    \E request \in Requests, timeout \in Timeouts, outcome \in K8sCreateOutcomes :
         /\ request # ValidRequest => outcome = "ready"
         /\ K8sCreateSandbox(request, timeout, outcome)

K8sRenew == \E id \in Ids, t \in Times, apiOk \in BOOLEAN : K8sRenewExpiration(id, t, apiOk)

K8sDelete == \E id \in Ids, apiOk \in BOOLEAN : K8sDeleteSandbox(id, apiOk)

Pause ==
    \E id \in Ids, lookup \in {"found", "404", "500"}, daemonOk \in BOOLEAN :
         /\ lookup # "found" => daemonOk
         /\ PauseSandbox(id, lookup, daemonOk)
Resume ==
    \E id \in Ids, lookup \in {"found", "404", "500"}, daemonOk \in BOOLEAN :
         /\ lookup # "found" => daemonOk
         /\ ResumeSandbox(id, lookup, daemonOk)

Next ==
    \/ Startup
    \/ Create
    \/ Renew
    \/ Delete
    \/ Pause
    \/ Resume
    \/ Expire
    \/ AsyncCreate
    \/ AsyncWorker
    \/ AsyncFinish
    \/ PendingCleanup
    \/ Get
    \/ List
    \/ K8sCreate
    \/ K8sRenew
    \/ K8sDelete
    \/ Tick

Spec == Init /\ [][Next]_vars


\* ------------------------------------------------------------------ threads
\* The same handlers, statement by statement, for calls that overlap: each request
\* runs on its own thread and each Timer on its own; only the expiration lock
\* makes a group of statements atomic.

\* renew_expiration, up to the validation: the container is looked up and the
\* requested time is checked against the clock.  A call that fails here is over
\* and has changed nothing.
RenewBegin(th, id, t, lookup) ==
    /\ runtime = "docker" /\ booted
    /\ renews[th].pc = "idle"
    /\ lookup \in LookupOutcomes(containers, id)
    /\ renews' = [renews EXCEPT ![th] =
                    IF lookup = "found" /\ EnsureFutureExpiration(t, now)
                    THEN [pc |-> "found", id |-> id, t |-> t, code |-> "none", labelled |-> FALSE]
                    ELSE Idle]
    /\ UNCHANGED <<auxVars, runtime, booted, now, used, dockerVars, workloads, callbacks, resp>>

\* renew_expiration: self._schedule_expiration(sandbox_id, new_expiration).
RenewSchedule(th) ==
    /\ renews[th].pc = "found"
    /\ SetTracker(ScheduleExpiration(Tracker, renews[th].id, renews[th].t))
    /\ renews' = [renews EXCEPT ![th].pc = "scheduled"]
    /\ UNCHANGED <<auxVars, runtime, booted, now, used, containers, pending_sandboxes,
                   pending_cleanup_timers, workloads, callbacks, resp>>

\* renew_expiration: the label update and the return.  The update fails when the
\* daemon refuses it or the container is gone; the failure is logged.
RenewUpdateLabels(th, updateOk) ==
    /\ renews[th].pc = "scheduled"
    /\ LET id == renews[th].id
           done == updateOk /\ containers[id].exists
       IN  /\ containers' = IF done
                            THEN [containers EXCEPT ![id].label = IsoFormat(renews[th].t)]
                            ELSE containers
           /\ renews' = [renews EXCEPT ![th].pc = "done", ![th].code = "ok",
                                       ![th].labelled = done]
    /\ UNCHANGED <<auxVars, runtime, booted, now, used, sandbox_expirations, expiration_timers,
                   timers, pending_sandboxes, pending_cleanup_timers, workloads, callbacks,
                   resp>>

\* A Timer whose delay has elapsed starts its callback, _expire_sandbox(id); from
\* then on cancel() has no effect on it.
Callback(id, at, pc) == [id |-> id, at |-> at, pc |-> pc]
TimerStart(id, at) ==
    /\ runtime = "docker" /\ booted
    /\ Tm(id, at) \in timers
    /\ now >= at
    /\ timers' = timers \ {Tm(id, at)}
    /\ callbacks' = callbacks \cup {Callback(id, at, "lookup")}
    /\ UNCHANGED <<auxVars, runtime, booted, now, used, containers, sandbox_expirations,
                   expiration_timers, pending_sandboxes, pending_cleanup_timers,
                   workloads, renews, resp>>

\* _expire_sandbox: the lookup; when it fails the tracking is removed and the
\* callback returns.
ExpireLookup(cb, lookup) ==
    /\ cb \in callbacks /\ cb.pc = "lookup"
    /\ lookup \in LookupOutcomes(containers, cb.id)
    /\ IF lookup # "found"
       THEN /\ SetTracker(RemoveExpirationTracking(Tracker, cb.id))
            /\ callbacks' = callbacks \ {cb}
       ELSE /\ callbacks' = (callbacks \ {cb}) \cup {Callback(cb.id, cb.at, "found")}
            /\ UNCHANGED <<sandbox_expirations, expiration_timers, timers>>
    /\ UNCHANGED <<auxVars, runtime, booted, now, used, containers, pending_sandboxes,
                   pending_cleanup_timers, workloads, renews, resp>>

\* _expire_sandbox: kill() when running, then remove(force=True).
ExpireKillRemove(cb, outcome) ==
    /\ cb \in callbacks /\ cb.pc = "found"
    /\ containers' = [containers EXCEPT ![cb.id] =
                        IF @.exists THEN ExpiredContainer(@, outcome) ELSE @]
    /\ callbacks' = (callbacks \ {cb}) \cup {Callback(cb.id, cb.at, "removed")}
    /\ UNCHANGED <<auxVars, runtime, booted, now, used, sandbox_expirations, expiration_timers,
                   timers, pending_sandboxes, pending_cleanup_timers, workloads,
                   renews, resp>>

\* _expire_sandbox: the closing _remove_expiration_tracking(sandbox_id).
ExpireUntrack(cb) ==
    /\ cb \in callbacks /\ cb.pc = "removed"
    /\ SetTracker(RemoveExpirationTracking(Tracker, cb.id))
    /\ callbacks' = callbacks \ {cb}
    /\ UNCHANGED <<auxVars, runtime, booted, now, used, containers, pending_sandboxes,
                   pending_cleanup_timers, workloads, renews, resp>>

ConcRenewBegin ==
    \E th \in Threads, id \in Ids, t \in Times, lookup \in {"found", "404", "500"} :
        RenewBegin(th, id, t, lookup)

ConcRenewSchedule == \E th \in Threads : RenewSchedule(th)

ConcRenewUpdateLabels == \E th \in Threads, updateOk \in BOOLEAN : RenewUpdateLabels(th, updateOk)

ConcTimerStart == \E id \in Ids, at \in Times : TimerStart(id, at)

ConcExpireLookup == \E cb \in callbacks, lookup \in {"found", "404", "500"} : ExpireLookup(cb, lookup)

ConcExpireKillRemove == \E cb \in callbacks, outcome \in ExpireOutcomes : ExpireKillRemove(cb, outcome)

ConcExpireUntrack == \E cb \in callbacks : ExpireUntrack(cb)

ConcInit == Init /\ runtime = "docker"

ConcNext ==
    \/ Startup
    \/ Create
    \/ ConcRenewBegin
    \/ ConcRenewSchedule
    \/ ConcRenewUpdateLabels
    \/ ConcTimerStart
    \/ ConcExpireLookup
    \/ ConcExpireKillRemove
    \/ ConcExpireUntrack
    \/ Tick

ConcSpec == ConcInit /\ [][ConcNext]_vars


\* ------------------------------------------------------------------ readiness wait
\* The one-second polls _wait_for_sandbox_ready makes before it gives up
\* (timeout_seconds / poll_interval_seconds in the code).
WaitTimeout == 2

\* The texts the endpoints annotation is drawn from: no annotation, an empty
\* text, an empty JSON array, a text that is not JSON, an array with one pod
\* IP, an array whose first address is empty.
Annotations == {"absent", "", "[]", "not-json", "[\"10.0.0.5\"]", "[\"\", \"10.0.0.5\"]"}

\* json.loads on the annotation's text.
JsonLoads(text) ==
    IF text = "[]" THEN [ok |-> TRUE, value |-> << >>]
    ELSE IF text = "[\"10.0.0.5\"]" THEN [ok |-> TRUE, value |-> <<"10.0.0.5">>]
    ELSE IF text = "[\"\", \"10.0.0.5\"]" THEN [ok |-> TRUE, value |-> <<"", "10.0.0.5">>]
    ELSE [ok |-> FALSE, value |-> << >>]

\* Python truth of annotations.get(...): a missing key and an empty text are false.
Truthy(text) == text \notin {"absent", ""}

\* A get_status that reports Failed for a workload whose pod has failed.
GetStatusReportsFailed(w) ==
    IF w.failed THEN [state |-> "Failed", reason |-> "POD_FAILED"]
    ELSE IF w.ready = 1 /\ Truthy(w.endpoints)
    THEN [state |-> "Running", reason |-> "READY_WITH_IP"]
    ELSE IF w.ready > 0 THEN [state |-> "Pending", reason |-> "POD_READY_NO_IP"]
    ELSE IF w.allocated > 0 THEN [state |-> "Pending", reason |-> "POD_SCHEDULED"]
    ELSE [state |-> "Pending", reason |-> "BATCHSANDBOX_PENDING"]

\* A get_status that reports Running for any positive count of ready pods.
GetStatusAnyReady(w) ==
    IF w.ready > 0 /\ Truthy(w.endpoints)
    THEN [state |-> "Running", reason |-> "READY_WITH_IP"]
    ELSE IF w.ready > 0 THEN [state |-> "Pending", reason |-> "POD_READY_NO_IP"]
    ELSE IF w.allocated > 0 THEN [state |-> "Pending", reason |-> "POD_SCHEDULED"]
    ELSE [state |-> "Pending", reason |-> "BATCHSANDBOX_PENDING"]

\* BatchSandboxProvider.get_status.
GetStatus(w) ==
    IF w.ready = 1 /\ Truthy(w.endpoints)
    THEN [state |-> "Running", reason |-> "READY_WITH_IP"]
    ELSE IF w.ready > 0 THEN [state |-> "Pending", reason |-> "POD_READY_NO_IP"]
    ELSE IF w.allocated > 0 THEN [state |-> "Pending", reason |-> "POD_SCHEDULED"]
    ELSE [state |-> "Pending", reason |-> "BATCHSANDBOX_PENDING"]

\* WorkloadProvider.get_status as the service calls it: BatchSandboxProvider's
\* status, or Failed from a provider that reports failed pods.
WorkloadStatus(w) ==
    IF w.failed THEN [state |-> "Failed", reason |-> "POD_FAILED"] ELSE GetStatus(w)

\* BatchSandboxProvider.get_endpoint_info: "ip:port" from the first address of
\* the annotation, None when the annotation is missing, empty, not JSON or an
\* empty array.
None == [ip |-> "none", port |-> 0]
GetEndpointInfo(w, port) ==
    IF ~Truthy(w.endpoints) THEN None
    ELSE LET parsed == JsonLoads(w.endpoints)
         IN  IF parsed.ok /\ Len(parsed.value) > 0
             THEN [ip |-> parsed.value[1], port |-> port]
             ELSE None

\* create_sandbox up to the return of create_workload: validation, id, labels,
\* create_workload.  A provider error is answered with KUBERNETES::API_ERROR.
K8sCreateBegin(request, timeout, createOk) ==
    /\ runtime = "kubernetes" /\ booted
    /\ wait.pc = "idle"
    /\ now + timeout <= MaxTime
    /\ IF ValidateCreate(request) # "none"
       THEN /\ resp' = [Resp("create", "none", "400") EXCEPT !.err = ValidateCreate(request)]
            /\ UNCHANGED <<used, workloads, batchsandbox, wait>>
       ELSE \E id \in Ids \ used :
              /\ used' = used \cup {id}
              /\ IF createOk
                 THEN /\ workloads' =
                           [workloads EXCEPT ![id] = Workload(IsoFormat(now + timeout), FALSE)]
                      /\ batchsandbox' = BatchSandbox(0, 0, "absent", FALSE)
                      /\ wait' = [NoWait EXCEPT !.pc = "polling", !.id = id,
                                                !.expires = now + timeout]
                      /\ resp' = Resp("create", id, "running")
                 ELSE /\ resp' = [Resp("create", id, "500") EXCEPT
                                     !.err = "KUBERNETES::API_ERROR"]
                      /\ UNCHANGED <<workloads, batchsandbox, wait>>
    /\ UNCHANGED <<labelVars, quoteVars, callVars, threadVars, renews, callbacks, runtime, booted, now, dockerVars>>

\* The cluster moves on between two polls: the controller writes the status
\* counters and the endpoints annotation.
ClusterStep(rdy, alloc, ep, failed) ==
    /\ wait.pc = "polling"
    /\ batchsandbox.exists
    /\ batchsandbox' = BatchSandbox(rdy, alloc, ep, failed)
    /\ UNCHANGED <<labelVars, quoteVars, callVars, threadVars, runtime, booted, now, used, dockerVars, workloads, renews, callbacks,
                   resp, wait>>

\* One iteration of the loop of _wait_for_sandbox_ready, entered while the
\* time spent is below the timeout.  obs is what get_workload did: returned
\* the workload, returned nothing, or raised.  A Failed status aborts the wait,
\* a Running status ends it and create_sandbox answers with the final status
\* of the workload the wait returned; everything else sleeps one interval.
K8sPoll(obs) ==
    /\ wait.pc = "polling"
    /\ wait.elapsed < WaitTimeout
    /\ LET st == WorkloadStatus(batchsandbox)
       IN  IF obs = "workload" /\ st.state = "Failed"
           THEN /\ wait' = [wait EXCEPT !.pc = "cleanup", !.err = "KUBERNETES::POD_FAILED"]
                /\ UNCHANGED <<resp, workloads>>
           ELSE IF obs = "workload" /\ st.state = "Running"
           THEN /\ wait' = [wait EXCEPT !.pc = "done", !.workload = batchsandbox]
                /\ workloads' = [workloads EXCEPT ![wait.id].ready = TRUE]
                /\ resp' = [Resp("create", wait.id, "ok") EXCEPT
                               !.state = st.state, !.reason = st.reason, !.t = wait.expires]
           ELSE /\ wait' = [wait EXCEPT !.elapsed = @ + 1]
                /\ UNCHANGED <<resp, workloads>>
    /\ UNCHANGED <<labelVars, quoteVars, callVars, threadVars, runtime, booted, now, used, dockerVars, renews, callbacks, batchsandbox>>

\* The loop condition fails: the wait raises KUBERNETES::POD_READY_TIMEOUT.
K8sWaitTimedOut ==
    /\ wait.pc = "polling"
    /\ wait.elapsed >= WaitTimeout
    /\ wait' = [wait EXCEPT !.pc = "cleanup", !.err = "KUBERNETES::POD_READY_TIMEOUT"]
    /\ UNCHANGED <<labelVars, quoteVars, callVars, threadVars, runtime, booted, now, used, dockerVars, workloads, renews, callbacks,
                   resp, batchsandbox>>

\* An error handler that lets a failed delete_workload replace the wait's error.
K8sCleanupSurfacesDeleteError(deleteOk) ==
    /\ wait.pc = "cleanup"
    /\ IF deleteOk
       THEN /\ batchsandbox' = NoBatchSandbox
            /\ workloads' = [workloads EXCEPT ![wait.id] = NoWorkload]
       ELSE UNCHANGED <<batchsandbox, workloads>>
    /\ wait' = [wait EXCEPT !.pc = "done",
                            !.cleanup = IF deleteOk THEN "deleted" ELSE "failed"]
    /\ resp' = IF deleteOk
               THEN [Resp("create", wait.id,
                          IF wait.err = "KUBERNETES::POD_FAILED" THEN "500" ELSE "504")
                       EXCEPT !.err = wait.err]
               ELSE [Resp("create", wait.id, "500") EXCEPT !.err = "KUBERNETES::API_ERROR"]
    /\ UNCHANGED <<labelVars, quoteVars, callVars, threadVars, runtime, booted, now, used, dockerVars, renews, callbacks>>

\* create_sandbox's handler of the wait's error: delete_workload is called, its
\* own failure is logged, and the wait's error is raised again.
K8sCleanup(deleteOk) ==
    /\ wait.pc = "cleanup"
    /\ IF deleteOk
       THEN /\ batchsandbox' = NoBatchSandbox
            /\ workloads' = [workloads EXCEPT ![wait.id] = NoWorkload]
       ELSE UNCHANGED <<batchsandbox, workloads>>
    /\ wait' = [wait EXCEPT !.pc = "done",
                            !.cleanup = IF deleteOk THEN "deleted" ELSE "failed"]
    /\ resp' = [Resp("create", wait.id,
                     IF wait.err = "KUBERNETES::POD_FAILED" THEN "500" ELSE "504")
                  EXCEPT !.err = wait.err]
    /\ UNCHANGED <<labelVars, quoteVars, callVars, threadVars, runtime, booted, now, used, dockerVars, renews, callbacks>>

ReadyBegin == \E request \in Requests, timeout \in Timeouts, createOk \in BOOLEAN :
                 K8sCreateBegin(request, timeout, createOk)
ReadyCluster == \E rdy \in 0..2, alloc \in 0..1, ep \in Annotations, failed \in BOOLEAN :
                   ClusterStep(rdy, alloc, ep, failed)
ReadyPoll == \E obs \in {"workload", "none", "error"} : K8sPoll(obs)
ReadyTimedOut == K8sWaitTimedOut
ReadyCleanup == \E deleteOk \in BOOLEAN : K8sCleanup(deleteOk)

ReadyInit == Init /\ runtime = "kubernetes"

ReadyNext ==
    \/ ReadyBegin
    \/ ReadyCluster
    \/ ReadyPoll
    \/ ReadyTimedOut
    \/ ReadyCleanup

ReadySpec == ReadyInit /\ [][ReadyNext]_vars

\* The polls, the timeout and the error handler run whenever they can: the
\* thread inside create_sandbox is not suspended for ever.
FairReadySpec ==
    ReadySpec /\ WF_vars(ReadyPoll) /\ WF_vars(ReadyTimedOut) /\ WF_vars(ReadyCleanup)

\* ------------------------------------------------------------------ labels
\* The well-known label keys.
ReservedPrefix == "opensandbox.io"
SANDBOX_ID_LABEL == Key(ReservedPrefix, <<"id">>)
SANDBOX_EXPIRES_AT_LABEL == Key(ReservedPrefix, <<"expires-at">>)
SANDBOX_EMBEDDING_PROXY_PORT_LABEL == Key(ReservedPrefix, <<"embedding-proxy-port">>)
SANDBOX_HTTP_PORT_LABEL == Key(ReservedPrefix, <<"http-port">>)
SystemLabels ==
    {SANDBOX_ID_LABEL, SANDBOX_EXPIRES_AT_LABEL, SANDBOX_EMBEDDING_PROXY_PORT_LABEL,
     SANDBOX_HTTP_PORT_LABEL}

\* d[k] = v and d.update(e) on Python dicts.
DictSet(d, k, v) == [x \in DOMAIN d \cup {k} |-> IF x = k THEN v ELSE d[x]]
DictUpdate(d, e) == [x \in DOMAIN d \cup DOMAIN e |-> IF x \in DOMAIN e THEN e[x] ELSE d[x]]

\* The ids generate_sandbox_id draws from, the two Docker network modes, and
\* the metadata maps of the requests: a plain key, the id label's own key and
\* another key under the reserved prefix, each present or absent.
LabelIds == {"s1", "s2"}
NetworkModes == {"host", "bridge"}
MetadataKeys == {Key("", <<"team">>), SANDBOX_ID_LABEL, Key(ReservedPrefix, <<"owner">>)}
Metadatas == {[k \in ks |-> "user"] : ks \in SUBSET MetadataKeys} \cup {(BadKey :> "ok")}

\* _provision_sandbox, the labels of the container: the user's metadata, then
\* the id, then in bridge mode the two host ports, then the expiration.
DockerLabels(metadata, id, mode) ==
    LET withId == DictSet(metadata, SANDBOX_ID_LABEL, id)
        withPorts == IF mode = "bridge"
                     THEN DictSet(DictSet(withId, SANDBOX_EMBEDDING_PROXY_PORT_LABEL, "40001"),
                                  SANDBOX_HTTP_PORT_LABEL, "40002")
                     ELSE withId
    IN  DictSet(withPorts, SANDBOX_EXPIRES_AT_LABEL, "expires-at")

\* create_sandbox (Kubernetes), the labels of the workload: the id, then
\* labels.update(request.metadata).
K8sLabels(metadata, id) == DictUpdate((SANDBOX_ID_LABEL :> id), metadata)

\* _container_to_sandbox, the metadata returned: every label but the id and the
\* expiration.
DockerMetadata(labels) ==
    [k \in DOMAIN labels \ {SANDBOX_ID_LABEL, SANDBOX_EXPIRES_AT_LABEL} |-> labels[k]]

\* _build_sandbox_from_workload, the metadata returned: every label whose key
\* does not start with opensandbox.io/.
K8sMetadata(labels) ==
    [k \in {x \in DOMAIN labels : x.prefix # ReservedPrefix} |-> labels[k]]

\* A create that passes validation stamps its labels on a new runtime object.
LabelCreate(provider, mode, metadata) ==
    /\ provider = "kubernetes" => mode = "host"
    /\ IF ValidateCreate([entrypoint |-> <<"python">>, metadata |-> metadata]) # "none"
       THEN UNCHANGED objects
       ELSE \E id \in LabelIds \ {o.id : o \in objects} :
              objects' = objects \cup
                 {[provider |-> provider, mode |-> mode, id |-> id, given |-> metadata,
                   labels |-> IF provider = "docker"
                              THEN DockerLabels(metadata, id, mode)
                              ELSE K8sLabels(metadata, id)]}
    /\ shown' = NoShown
    /\ UNCHANGED <<runtime, booted, now, used, dockerVars, workloads, renews, callbacks,
                   resp, readyVars, quoteVars, callVars, threadVars>>

\* get_sandbox / list_sandboxes project an object's labels back to metadata.
LabelShow(o) ==
    /\ o \in objects
    /\ shown' = [provider |-> o.provider, id |-> o.id, given |-> o.given,
                 metadata |-> IF o.provider = "docker"
                              THEN DockerMetadata(o.labels)
                              ELSE K8sMetadata(o.labels)]
    /\ UNCHANGED <<runtime, booted, now, used, dockerVars, workloads, renews, callbacks,
                   resp, readyVars, quoteVars, callVars, threadVars, objects>>

LabelCreates ==
    \E provider \in {"docker", "kubernetes"}, mode \in NetworkModes, metadata \in Metadatas :
         LabelCreate(provider, mode, metadata)
LabelShows == \E o \in objects : LabelShow(o)

LabelNext ==
    \/ LabelCreates
    \/ LabelShows

LabelSpec == Init /\ [][LabelNext]_vars

\* ------------------------------------------------------------------ pool-mode command
\* Texts are sequences of characters.  The characters drawn: a letter, and the
\* ones the shell treats specially.  Bootstrap stands for the path
\* /opt/opensandbox/bin/bootstrap.sh, which holds none of them.
Chars == {"a", " ", "'", "\"", "\\", ";", "&"}
SafeChars == {"a"}
Bootstrap == "/opt/opensandbox/bin/bootstrap.sh"

\* The size of an entrypoint: its arguments plus their characters.
MaxSize == 4

ArgsUpTo(n) == UNION {[1..k -> Chars] : k \in 0..n}
RECURSIVE Size(_)
Size(entrypoint) ==
    IF entrypoint = << >> THEN 0
    ELSE 1 + Len(Head(entrypoint)) + Size(Tail(entrypoint))
Entrypoints ==
    UNION {{e \in [1..n -> ArgsUpTo(MaxSize - n)] : Size(e) <= MaxSize} : n \in 0..MaxSize}

\* str.replace("'", "'\"'\"'").
RECURSIVE ReplaceQuotes(_)
ReplaceQuotes(text) ==
    IF text = << >> THEN << >>
    ELSE (IF Head(text) = "'" THEN <<"'", "\"", "'", "\"", "'">> ELSE <<Head(text)>>)
         \o ReplaceQuotes(Tail(text))

\* A quoting that wraps the text in single quotes and leaves its own quotes alone.
ShlexQuoteWrapsOnly(text) ==
    IF text = << >> THEN <<"'", "'">>
    ELSE IF \A i \in 1..Len(text) : text[i] \in SafeChars THEN text
    ELSE <<"'">> \o text \o <<"'">>

\* shlex.quote: '' for the empty text, the text itself when every character is
\* safe, otherwise the text in single quotes with each ' written as '"'"'.
ShlexQuote(text) ==
    IF text = << >> THEN <<"'", "'">>
    ELSE IF \A i \in 1..Len(text) : text[i] \in SafeChars THEN text
    ELSE <<"'">> \o ReplaceQuotes(text) \o <<"'">>

\* ' '.join(...).
RECURSIVE Join(_)
Join(texts) ==
    IF texts = << >> THEN << >>
    ELSE IF Len(texts) = 1 THEN Head(texts)
    ELSE Head(texts) \o <<" ">> \o Join(Tail(texts))

\* _build_task_template: the text handed to /bin/sh -c.
BuildTaskCommand(entrypoint) ==
    <<Bootstrap, " ">>
    \o Join([i \in 1..Len(entrypoint) |-> ShlexQuote(entrypoint[i])])
    \o <<" ", "&">>

\* /bin/sh reading a command text.  The reader is outside quotes, inside single
\* quotes or inside double quotes; word is the word being built (inword: a
\* word has begun, so that '' yields an empty word), words the words of the
\* command being read, commands the commands read so far, each with whether it
\* was sent to the background.
ShStart ==
    [mode |-> "plain", escaped |-> FALSE, inword |-> FALSE, word |-> << >>, words |-> << >>,
     commands |-> << >>]
EndWord(st) ==
    IF st.inword
    THEN [st EXCEPT !.words = Append(@, st.word), !.word = << >>, !.inword = FALSE]
    ELSE st
EndCommand(st, background) ==
    LET e == EndWord(st)
    IN  IF e.words = << >> /\ ~background
        THEN e
        ELSE [e EXCEPT !.commands = Append(@, [words |-> e.words, background |-> background]),
                       !.words = << >>]
Put(st, c) == [st EXCEPT !.word = Append(@, c), !.inword = TRUE]
ShChar(st, c) ==
    IF st.escaped THEN [Put(st, c) EXCEPT !.escaped = FALSE]
    ELSE IF st.mode = "single"
    THEN IF c = "'" THEN [st EXCEPT !.mode = "plain"] ELSE Put(st, c)
    ELSE IF st.mode = "double"
    THEN IF c = "\"" THEN [st EXCEPT !.mode = "plain"]
         ELSE IF c = "\\" THEN [st EXCEPT !.escaped = TRUE]
         ELSE Put(st, c)
    ELSE CASE c = " "  -> EndWord(st)
           [] c = "'"  -> [st EXCEPT !.mode = "single", !.inword = TRUE]
           [] c = "\"" -> [st EXCEPT !.mode = "double", !.inword = TRUE]
           [] c = "\\" -> [st EXCEPT !.escaped = TRUE]
           [] c = ";"  -> EndCommand(st, FALSE)
           [] c = "&"  -> EndCommand(st, TRUE)
           [] OTHER    -> Put(st, c)
RECURSIVE ShRead(_, _)
ShRead(st, text) ==
    IF text = << >> THEN st ELSE ShRead(ShChar(st, Head(text)), Tail(text))

\* What sh -c runs for a text: the commands, or "unterminated" when the text
\* ends inside a quotation or after a backslash.
ShParse(text) ==
    LET st == ShRead(ShStart, text)
    IN  IF st.mode # "plain" \/ st.escaped
        THEN [ok |-> FALSE, commands |-> << >>]
        ELSE [ok |-> TRUE, commands |-> EndCommand(st, FALSE).commands]

\* create_workload in pool mode builds the taskTemplate of an entrypoint.
BuildTaskTemplate(entrypoint) ==
    /\ runtime = "kubernetes"
    /\ task.pc = "none"
    /\ task' = [NoTask EXCEPT !.pc = "built", !.entrypoint = entrypoint,
                              !.command = BuildTaskCommand(entrypoint)]
    /\ UNCHANGED <<runtime, booted, now, used, dockerVars, workloads, renews, callbacks,
                   resp, readyVars, labelVars, callVars, threadVars>>

\* The task starts: /bin/sh -c reads the command.
RunTask ==
    /\ task.pc = "built"
    /\ task' = [task EXCEPT !.pc = "run", !.parsed = ShParse(task.command)]
    /\ UNCHANGED <<runtime, booted, now, used, dockerVars, workloads, renews, callbacks,
                   resp, readyVars, labelVars, callVars, threadVars>>

QuoteBuild == \E entrypoint \in Entrypoints : BuildTaskTemplate(entrypoint)
QuoteRun == RunTask

QuoteInit == Init /\ runtime = "kubernetes"

QuoteNext ==
    \/ QuoteBuild
    \/ QuoteRun

QuoteSpec == QuoteInit /\ [][QuoteNext]_vars

\* ------------------------------------------------------------------ functions of their arguments
\* The handlers below compute their result from their arguments alone.  Each
\* is applied once to arguments drawn from small sets; call records the
\* arguments and the result.
callFrame == <<runtime, booted, now, used, dockerVars, workloads, renews, callbacks,
               resp, readyVars, labelVars, quoteVars, threadVars>>

EmptyDict == << >>

\* dict.get(key) on a dict of texts, an absent key read as "absent".
DictGet(d, k) == IF k \in DOMAIN d THEN d[k] ELSE "absent"

\* ------------------------------------------------------------------ create_workload
Images == {"python:3.11", "ubuntu:22.04"}
ResourceLimits == {EmptyDict, [cpu |-> "500m"]}
Envs == {EmptyDict, [FOO |-> "bar"], [FOO |-> "", BAR |-> Null]}
\* extensions: None and {} (one value after `extensions or {}`), an empty
\* poolRef, a pool's name.
Extensions == {EmptyDict, [poolRef |-> ""], [poolRef |-> "my-pool"]}
CallEntrypoints == {<< <<"a">> >>, << <<"a">>, <<"'">> >>}
WorkloadRequests ==
    [image : Images, entrypoint : CallEntrypoints, env : Envs,
     resource_limits : ResourceLimits, extensions : Extensions, expires_at : Timeouts]

\* The spec of the user's template file: no file, or one that sets replicas.
Templates == {EmptyDict, [replicas |-> 2]}

\* _build_task_template: the command for /bin/sh -c and the env list.
TaskTemplate(entrypoint, env) ==
    [command |-> <<"/bin/sh", "-c">> \o BuildTaskCommand(entrypoint),
     env |-> {[name |-> k, value |-> env[k]] : k \in DOMAIN env}]

\* _build_main_container and _container_to_dict.
BuildMainContainer(image, entrypoint, env, resource_limits) ==
    LET container ==
            [name |-> "sandbox", image |-> image,
             command |-> <<Bootstrap>> \o entrypoint,
             env |-> {[name |-> k, value |-> env[k]] : k \in DOMAIN env}
                     \cup {[name |-> "EXECD", value |-> "/opt/opensandbox/bin/execd"]}]
    IN  IF DOMAIN resource_limits = {} THEN container
        ELSE DictSet(container, "resources",
                     [limits |-> resource_limits, requests |-> resource_limits])

\* _create_workload_from_pool: the spec of the manifest it posts.
CreateWorkloadFromPool(pool_ref, expires_at, entrypoint, env) ==
    [replicas |-> 1, poolRef |-> pool_ref, expireTime |-> IsoFormat(expires_at),
     taskTemplate |-> TaskTemplate(entrypoint, env)]

\* BatchSandboxTemplateManager.merge_with_runtime_values on the spec: the
\* template's fields are defaults, the runtime's fields override them.
MergeWithRuntimeValues(template, runtime_spec) == DictUpdate(template, runtime_spec)

\* A pool test that looks for the key, not for a non-empty value.
CreateWorkloadManifestOnKey(template, request) ==
    IF "poolRef" \in DOMAIN request.extensions
    THEN CreateWorkloadFromPool(request.extensions.poolRef, request.expires_at,
                                request.entrypoint, request.env)
    ELSE MergeWithRuntimeValues(template,
             [replicas |-> 1, expireTime |-> IsoFormat(request.expires_at),
              template |-> [initContainers |-> <<"execd-installer">>,
                            containers |-> <<BuildMainContainer(request.image,
                                request.entrypoint, request.env, request.resource_limits)>>,
                            volumes |-> <<"opensandbox-bin">>]])

\* create_workload: the spec of the manifest it posts.
CreateWorkloadManifest(template, request) ==
    IF Truthy(DictGet(request.extensions, "poolRef"))
    THEN CreateWorkloadFromPool(request.extensions.poolRef, request.expires_at,
                                request.entrypoint, request.env)
    ELSE MergeWithRuntimeValues(template,
             [replicas |-> 1, expireTime |-> IsoFormat(request.expires_at),
              template |-> [initContainers |-> <<"execd-installer">>,
                            containers |-> <<BuildMainContainer(request.image,
                                request.entrypoint, request.env, request.resource_limits)>>,
                            volumes |-> <<"opensandbox-bin">>]])

CreateWorkload(template, request) ==
    /\ runtime = "kubernetes"
    /\ call.op = "none"
    /\ call' = [op |-> "create_workload", template |-> template, request |-> request,
                spec |-> CreateWorkloadManifest(template, request)]
    /\ UNCHANGED callFrame

CallCreateWorkload == \E template \in Templates, request \in WorkloadRequests :
                          CreateWorkload(template, request)

\* ------------------------------------------------------------------ status projection
\* The State sections drawn: every combination of the three flags with the
\* statuses the daemon reports, an unlisted one, a capitalised one and none.
Statuses == {"running", "paused", "restarting", "created", "starting", "exited", "dead",
             "removing", "Exited", ""}
ExitCodes == {0, 1, 137, NoExitCode}
StateSections ==
    [Status : Statuses, Running : BOOLEAN, Paused : BOOLEAN, Restarting : BOOLEAN,
     ExitCode : ExitCodes]

ContainerToSandboxStatus(state) ==
    /\ runtime = "docker"
    /\ call.op = "none"
    /\ call' = [op |-> "_container_to_sandbox", State |-> state,
                status |-> StatusProjection(state)]
    /\ UNCHANGED callFrame

CallContainerToSandbox == \E state \in StateSections : ContainerToSandboxStatus(state)

\* ------------------------------------------------------------------ get_status, get_endpoint
\* The workload snapshots drawn: the counters up to MaxPods and every annotation.
MaxPods == 2
Snapshots == {BatchSandbox(rdy, alloc, ep, FALSE) :
                  rdy \in 0..MaxPods, alloc \in 0..MaxPods, ep \in Annotations}
EndpointPorts == {8080, 44772}

CallGetStatusOf(workload) ==
    /\ runtime = "kubernetes"
    /\ call.op = "none"
    /\ call' = [op |-> "get_status", workload |-> workload, status |-> GetStatus(workload)]
    /\ UNCHANGED callFrame

CallGetStatus == \E workload \in Snapshots : CallGetStatusOf(workload)

\* KubernetesSandboxService.get_endpoint: 404 for no workload, 404 for no
\* endpoint, the endpoint otherwise.
K8sGetEndpoint(workload, port) ==
    /\ runtime = "kubernetes"
    /\ call.op = "none"
    /\ call' =
         LET endpoint_str == GetEndpointInfo(workload, port)
             answer == [op |-> "get_endpoint", workload |-> workload, port |-> port,
                        code |-> "ok", err |-> "none", endpoint |-> None]
         IN  IF ~workload.exists
             THEN [answer EXCEPT !.code = "404", !.err = "KUBERNETES::SANDBOX_NOT_FOUND"]
             ELSE IF endpoint_str = None
             THEN [answer EXCEPT !.code = "404", !.err = "KUBERNETES::POD_IP_NOT_AVAILABLE"]
             ELSE [answer EXCEPT !.endpoint = endpoint_str]
    /\ UNCHANGED callFrame

CallK8sGetEndpoint == \E workload \in Snapshots \cup {NoBatchSandbox}, port \in EndpointPorts :
                          K8sGetEndpoint(workload, port)

\* ------------------------------------------------------------------ get_endpoint (Docker)
\* The texts a host-port label is drawn from: no label, an empty one, one that
\* is not a number, numbers outside 1..65535, two host ports.
PortLabels == {"absent", "", "abc", "0", "65536", "32768", "32769"}

\* int(value): the number a text of digits stands for, ValueError otherwise.
ValueError == -1
ParseInt(text) ==
    CASE text = "0" -> 0
      [] text = "65536" -> 65536
      [] text = "32768" -> 32768
      [] text = "32769" -> 32769
      [] OTHER -> ValueError

\* _parse_host_port_label: the port of a label, None (NoPort) for a label that
\* is missing, empty, not a number or outside 1..65535.
NoPort == 0
ParseHostPortLabel(value) ==
    IF ~Truthy(value) THEN NoPort
    ELSE LET port == ParseInt(value)
         IN  IF port = ValueError \/ port <= 0 \/ port > 65535 THEN NoPort ELSE port

\* _resolve_public_host, and an endpoint "<host>:<port>" or, with proxy # 0,
\* "<host>:<port>/proxy/<proxy>".
PublicHost == "sandbox.example.com"
Endpoint(host, port, proxy) == [host |-> host, port |-> port, proxy |-> proxy]
NoEndpoint == Endpoint("none", 0, 0)
Found(endpoint) == [code |-> "ok", err |-> "none", endpoint |-> endpoint]

\* A resolver that sends every port to the HTTP host port.
GetEndpointHttpOnly(mode, lookup, http_label, execd_label, bridge_ip, port, resolve_internal) ==
    LET execd_host_port == ParseHostPortLabel(execd_label)
        http_host_port == ParseHostPortLabel(http_label)
        unavailable == [code |-> "500", err |-> "DOCKER::NETWORK_MODE_ENDPOINT_UNAVAILABLE",
                        endpoint |-> NoEndpoint]
        missing == [code |-> "404", err |-> "DOCKER::SANDBOX_NOT_FOUND", endpoint |-> NoEndpoint]
    IN  IF resolve_internal
        THEN IF lookup # "found" THEN missing
             ELSE IF mode = "host" THEN Found(Endpoint("127.0.0.1", port, 0))
             ELSE IF bridge_ip = "" THEN unavailable
             ELSE Found(Endpoint(bridge_ip, port, 0))
        ELSE IF mode = "host" THEN Found(Endpoint(PublicHost, port, 0))
        ELSE IF lookup # "found" THEN missing
        ELSE IF port = 8080
        THEN IF http_host_port = NoPort THEN unavailable
             ELSE Found(Endpoint(PublicHost, http_host_port, 0))
        ELSE IF http_host_port = NoPort THEN unavailable
             ELSE Found(Endpoint(PublicHost, http_host_port, 0))

\* DockerSandboxService.get_endpoint for a valid port.  lookup: what
\* _get_container_by_sandbox_id finds; bridge_ip: the container's address on
\* the bridge, empty when it has none.
GetEndpoint(mode, lookup, http_label, execd_label, bridge_ip, port, resolve_internal) ==
    LET execd_host_port == ParseHostPortLabel(execd_label)
        http_host_port == ParseHostPortLabel(http_label)
        unavailable == [code |-> "500", err |-> "DOCKER::NETWORK_MODE_ENDPOINT_UNAVAILABLE",
                        endpoint |-> NoEndpoint]
        missing == [code |-> "404", err |-> "DOCKER::SANDBOX_NOT_FOUND", endpoint |-> NoEndpoint]
    IN  IF resolve_internal
        THEN IF lookup # "found" THEN missing
             ELSE IF mode = "host" THEN Found(Endpoint("127.0.0.1", port, 0))
             ELSE IF bridge_ip = "" THEN unavailable
             ELSE Found(Endpoint(bridge_ip, port, 0))
        ELSE IF mode = "host" THEN Found(Endpoint(PublicHost, port, 0))
        ELSE IF lookup # "found" THEN missing
        ELSE IF port = 8080
        THEN IF http_host_port = NoPort THEN unavailable
             ELSE Found(Endpoint(PublicHost, http_host_port, 0))
        ELSE IF execd_host_port = NoPort THEN unavailable
             ELSE Found(Endpoint(PublicHost, execd_host_port, port))

DockerGetEndpoint(mode, lookup, http_label, execd_label, bridge_ip, port, resolve_internal) ==
    /\ runtime = "docker"
    /\ call.op = "none"
    /\ call' = [op |-> "docker_get_endpoint", mode |-> mode, lookup |-> lookup,
                http_label |-> http_label, execd_label |-> execd_label, port |-> port,
                resolve_internal |-> resolve_internal,
                answer |-> GetEndpoint(mode, lookup, http_label, execd_label, bridge_ip,
                                       port, resolve_internal)]
    /\ UNCHANGED callFrame

CallDockerGetEndpoint ==
    \E mode \in NetworkModes, lookup \in {"found", "404"}, http_label \in PortLabels,
       execd_label \in PortLabels, bridge_ip \in {"", "172.17.0.2"}, port \in EndpointPorts,
       resolve_internal \in BOOLEAN :
        DockerGetEndpoint(mode, lookup, http_label, execd_label, bridge_ip, port,
                          resolve_internal)

\* ------------------------------------------------------------------ list pages
\* The sandboxes a list collects, in the order the runtime returned them: up to
\* MaxItems sandboxes, each with a creation time; and the paginations asked
\* for: none, or a page up to MaxPage of a size up to MaxItems.
MaxItems == 4
MaxPage == 3
Collected == UNION {{[k \in 1..n |-> [id |-> k, created |-> c[k]]] : c \in [1..n -> 1..3]} :
                        n \in 0..MaxItems}
Paginations == {NoPagination} \cup [page : 1..MaxPage, size : 1..MaxItems]

NoPage == [items |-> << >>, page |-> 0, page_size |-> 0, total_items |-> 0,
           total_pages |-> 0, has_next_page |-> FALSE]

\* list_sandboxes (Kubernetes), from the filtered sandboxes to the response
\* page: request.pagination is read without a test for None, and the error is
\* answered with 500.
K8sPaginate(filtered, pg) ==
    IF pg = NoPagination THEN [code |-> "500", page |-> NoPage]
    ELSE LET total_items == Len(filtered)
             start_idx == (pg.page - 1) * pg.size
             end_idx == start_idx + pg.size
             total_pages == (total_items + pg.size - 1) \div pg.size
         IN  [code |-> "ok",
              page |-> [items |-> SubSeq(filtered, start_idx + 1, Min(end_idx, total_items)),
                        page |-> pg.page, page_size |-> pg.size,
                        total_items |-> total_items, total_pages |-> total_pages,
                        has_next_page |-> pg.page < total_pages]]

\* list_sandboxes from the sort on, on either service.
ListPage(provider, sandboxes, pg) ==
    IF provider = "docker"
    THEN [code |-> "ok", page |-> Paginate(SortByCreatedDesc(sandboxes), pg)]
    ELSE K8sPaginate(SortByCreatedDesc(sandboxes), pg)

ListSandboxesPage(sandboxes, pg) ==
    /\ call.op = "none"
    /\ call' = [op |-> "list_sandboxes", provider |-> runtime, sandboxes |-> sandboxes,
                pagination |-> pg, answer |-> ListPage(runtime, sandboxes, pg)]
    /\ UNCHANGED callFrame

CallListSandboxes == \E sandboxes \in Collected, pg \in Paginations :
                         ListSandboxesPage(sandboxes, pg)

\* ------------------------------------------------------------------ _provision_sandbox
\* The volume mounts of a create request: a relative host path and an absolute
\* one, each mounted or not; and the host paths that exist on the server.
HostPaths == {"data", "/srv/cache"}
VolumeMounts ==
    SUBSET {[host_path |-> "data", container_path |-> "/workspace", read_only |-> FALSE],
            [host_path |-> "/srv/cache", container_path |-> "/cache", read_only |-> TRUE]}

\* _provision_sandbox: the environment list, one "key=value" per key whose
\* value is not None.
Environment(env) == {[name |-> k, value |-> env[k]] : k \in {x \in DOMAIN env : env[x] # Null}}

\* _provision_sandbox: the arguments of create_host_config.  The request's
\* volume mounts are not read.
HostConfigKwargs(mode, volume_mounts) ==
    IF mode = "bridge"
    THEN [network_mode |-> mode, port_bindings |-> {"44772", "8080"}]
    ELSE [network_mode |-> mode]

\* _provision_sandbox up to create_container, for an image that is available
\* and host ports that can be allocated.
ProvisionSandboxConfig(mode, env, volume_mounts, existing) ==
    /\ runtime = "docker"
    /\ call.op = "none"
    /\ call' = [op |-> "_provision_sandbox", env |-> env, volume_mounts |-> volume_mounts,
                existing |-> existing, code |-> "ok", err |-> "none", created |-> TRUE,
                environment |-> Environment(env),
                host_config |-> HostConfigKwargs(mode, volume_mounts)]
    /\ UNCHANGED callFrame

CallProvisionSandbox ==
    \E mode \in NetworkModes, env \in Envs, volume_mounts \in VolumeMounts,
       existing \in SUBSET HostPaths :
        ProvisionSandboxConfig(mode, env, volume_mounts, existing)

\* One call of one of the functions above.
CallNext ==
    \/ CallCreateWorkload
    \/ CallContainerToSandbox
    \/ CallGetStatus
    \/ CallK8sGetEndpoint
    \/ CallDockerGetEndpoint
    \/ CallListSandboxes
    \/ CallProvisionSandbox

CallInit == Init /\ \A id \in Ids : ~containers[id].exists
CallSpec == CallInit /\ [][CallNext]_vars


\* ------------------------------------------------------------------ pcs and locks
\* create_sandbox requests, an expiration Timer, a request on a running
\* sandbox and a pending-cleanup Timer run as pcs, one statement at a
\* time.  A thread's position names the statement it executes next; the
\* statements that call the Docker daemon are DaemonCalls.

\* Entering and leaving a `with lock:` block.
EnterWith(lk, l, t) == [lk EXCEPT ![l] = t]

LeaveWithKeepsExpirationLock(lk, l) ==
    IF l = "expiration" THEN lk ELSE [lk EXCEPT ![l] = Free]

LeaveWith(lk, l) == [lk EXCEPT ![l] = Free]

\* The position after each statement of _provision_sandbox, by its outcome.
AfterStepStartsUnprepared(pc, ok) ==
    CASE pc = "ensure_image" -> IF ok THEN "create" ELSE "done"
      [] pc = "create" -> IF ok THEN "get" ELSE "done"
      [] pc = "get" -> IF ok THEN "start" ELSE "remove_container"
      [] pc = "copy" -> IF ok THEN "bootstrap" ELSE "done"
      [] pc = "bootstrap" -> IF ok THEN "schedule_lock" ELSE "done"
      [] pc = "start" -> IF ok THEN "fetch_check" ELSE "remove_container"
      [] OTHER -> "done"

AfterStep(pc, ok) ==
    CASE pc = "ensure_image" -> IF ok THEN "create" ELSE "done"
      [] pc = "create" -> IF ok THEN "get" ELSE "done"
      [] pc = "get" -> IF ok THEN "fetch_check" ELSE "remove_container"
      [] pc = "copy" -> IF ok THEN "bootstrap" ELSE "done"
      [] pc = "bootstrap" -> IF ok THEN "start" ELSE "done"
      [] pc = "start" -> IF ok THEN "schedule_lock" ELSE "remove_container"
      [] OTHER -> "done"

threadFrame == <<runtime, booted, now, used, dockerVars, workloads, renews, callbacks,
                 resp, readyVars, labelVars, quoteVars, callVars>>

threadData == <<execd_archive_cache, execd_containers, fetches, provision, tracking>>

\* _ensure_image_available: inspect, pull when missing.
EnsureImage(t, ok) ==
    /\ pcs[t] = "ensure_image"
    /\ pcs' = [pcs EXCEPT ![t] = AfterStep("ensure_image", ok)]
    /\ provision' = [provision EXCEPT ![t].result =
                        IF ok THEN "none" ELSE "DOCKER::SANDBOX_IMAGE_PULL_FAILED"]
    /\ UNCHANGED <<locks, execd_archive_cache, execd_containers, fetches, tracking>>
    /\ UNCHANGED threadFrame

\* api.create_container with the id and expires-at labels.
CreateContainer(t, ok) ==
    /\ pcs[t] = "create"
    /\ pcs' = [pcs EXCEPT ![t] = AfterStep("create", ok)]
    /\ provision' = [provision EXCEPT ![t] =
                        IF ok
                        THEN [@ EXCEPT !.container = "created",
                                       !.labels = {"id", "expires_at"},
                                       !.steps = Append(@, "create")]
                        ELSE [@ EXCEPT !.result = "DOCKER::SANDBOX_START_FAILED"]]
    /\ UNCHANGED <<locks, execd_archive_cache, execd_containers, fetches, tracking>>
    /\ UNCHANGED threadFrame

\* containers.get(container_id).
GetContainer(t, ok) ==
    /\ pcs[t] = "get"
    /\ pcs' = [pcs EXCEPT ![t] = AfterStep("get", ok)]
    /\ UNCHANGED <<locks, threadData>>
    /\ UNCHANGED threadFrame

\* _fetch_execd_archive: the unlocked look at the cache.
FetchCheck(t) ==
    /\ pcs[t] = "fetch_check"
    /\ IF execd_archive_cache # Null
       THEN /\ pcs' = [pcs EXCEPT ![t] = "copy"]
            /\ provision' = [provision EXCEPT ![t].archive = execd_archive_cache]
       ELSE /\ pcs' = [pcs EXCEPT ![t] = "fetch_lock"]
            /\ UNCHANGED provision
    /\ UNCHANGED <<locks, execd_archive_cache, execd_containers, fetches, tracking>>
    /\ UNCHANGED threadFrame

\* with self._execd_archive_lock, with self._expiration_lock, with
\* self._pending_lock: the thread goes in once the lock is free.
AcquireLock(t) ==
    /\ LockWanted(pcs[t]) # Free
    /\ locks[LockWanted(pcs[t])] = Free
    /\ locks' = EnterWith(locks, LockWanted(pcs[t]), t)
    /\ pcs' = [pcs EXCEPT ![t] =
                  CASE @ = "fetch_lock" -> "fetch_recheck"
                    [] @ = "schedule_lock" -> "schedule"
                    [] @ = "untrack_lock" -> "untrack"
                    [] @ = "tracked_lock" -> "tracked"
                    [] @ = "pending_lock" -> "pending"]
    /\ UNCHANGED threadData
    /\ UNCHANGED threadFrame

\* The second look at the cache, under the lock.
FetchRecheck(t) ==
    /\ pcs[t] = "fetch_recheck"
    /\ IF execd_archive_cache # Null
       THEN /\ pcs' = [pcs EXCEPT ![t] = "copy"]
            /\ provision' = [provision EXCEPT ![t].archive = execd_archive_cache]
            /\ locks' = LeaveWith(locks, "execd_archive")
       ELSE /\ pcs' = [pcs EXCEPT ![t] = "fetch_image"]
            /\ UNCHANGED <<provision, locks>>
    /\ UNCHANGED <<execd_archive_cache, execd_containers, fetches, tracking>>
    /\ UNCHANGED threadFrame

\* A DockerException in the first try block: 503, the lock released by the
\* with statement, no removal of whatever was created.
FetchStartFailed(t) ==
    /\ pcs' = [pcs EXCEPT ![t] = "done"]
    /\ provision' = [provision EXCEPT ![t].result = "DOCKER::SANDBOX_EXECD_START_FAILED"]
    /\ locks' = LeaveWith(locks, "execd_archive")

\* images.get, images.pull when missing.
FetchImage(t, ok) ==
    /\ pcs[t] = "fetch_image"
    /\ IF ok
       THEN /\ pcs' = [pcs EXCEPT ![t] = "fetch_create"]
            /\ UNCHANGED <<provision, locks>>
       ELSE FetchStartFailed(t)
    /\ UNCHANGED <<execd_archive_cache, execd_containers, fetches, tracking>>
    /\ UNCHANGED threadFrame

\* containers.create of the throwaway container.
FetchCreate(t, ok) ==
    /\ pcs[t] = "fetch_create"
    /\ IF ok
       THEN /\ pcs' = [pcs EXCEPT ![t] = "fetch_start"]
            /\ execd_containers' = [execd_containers EXCEPT ![t] = "created"]
            /\ UNCHANGED <<provision, locks>>
       ELSE /\ FetchStartFailed(t)
            /\ UNCHANGED execd_containers
    /\ UNCHANGED <<execd_archive_cache, fetches, tracking>>
    /\ UNCHANGED threadFrame

\* container.start and container.reload.
FetchStart(t, ok) ==
    /\ pcs[t] = "fetch_start"
    /\ IF ok
       THEN /\ pcs' = [pcs EXCEPT ![t] = "fetch_read"]
            /\ execd_containers' = [execd_containers EXCEPT ![t] = "started"]
            /\ UNCHANGED <<provision, locks>>
       ELSE /\ FetchStartFailed(t)
            /\ UNCHANGED execd_containers
    /\ UNCHANGED <<execd_archive_cache, fetches, tracking>>
    /\ UNCHANGED threadFrame

\* container.get_archive("/execd"); a failure is raised after the finally.
FetchRead(t, ok) ==
    /\ pcs[t] = "fetch_read"
    /\ pcs' = [pcs EXCEPT ![t] = "fetch_remove"]
    /\ provision' = [provision EXCEPT ![t].result =
                        IF ok THEN "none" ELSE "DOCKER::SANDBOX_EXECD_DISTRIBUTION_FAILED"]
    /\ UNCHANGED <<locks, execd_archive_cache, execd_containers, fetches, tracking>>
    /\ UNCHANGED threadFrame

\* finally: container.remove(force=True), a failure only logged; then the
\* read's exception, or the cache assignment and the return.
FetchRemove(t, ok) ==
    /\ pcs[t] = "fetch_remove"
    /\ execd_containers' = [execd_containers EXCEPT ![t] = IF ok THEN "removed" ELSE @]
    /\ locks' = LeaveWith(locks, "execd_archive")
    /\ IF provision[t].result # "none"
       THEN /\ pcs' = [pcs EXCEPT ![t] = "done"]
            /\ UNCHANGED <<provision, execd_archive_cache, fetches>>
       ELSE /\ pcs' = [pcs EXCEPT ![t] = "copy"]
            /\ execd_archive_cache' = t
            /\ fetches' = fetches + 1
            /\ provision' = [provision EXCEPT ![t].archive = t]
    /\ UNCHANGED tracking
    /\ UNCHANGED threadFrame

\* _copy_execd_to_container: _ensure_directory and put_archive.
CopyExecd(t, ok) ==
    /\ pcs[t] = "copy"
    /\ pcs' = [pcs EXCEPT ![t] = AfterStep("copy", ok)]
    /\ provision' = [provision EXCEPT ![t] =
                        IF ok
                        THEN [@ EXCEPT !.execd = TRUE,
                                       !.steps = Append(@, IF provision[t].container = "created"
                                                           THEN "execd" ELSE "execd_late")]
                        ELSE [@ EXCEPT !.result = "DOCKER::SANDBOX_EXECD_DISTRIBUTION_FAILED"]]
    /\ UNCHANGED <<locks, execd_archive_cache, execd_containers, fetches, tracking>>
    /\ UNCHANGED threadFrame

\* _install_bootstrap_script.
InstallBootstrap(t, ok) ==
    /\ pcs[t] = "bootstrap"
    /\ pcs' = [pcs EXCEPT ![t] = AfterStep("bootstrap", ok)]
    /\ provision' = [provision EXCEPT ![t] =
                        IF ok
                        THEN [@ EXCEPT !.bootstrap = TRUE,
                                       !.steps = Append(@, IF provision[t].container = "created"
                                                           THEN "bootstrap" ELSE "bootstrap_late")]
                        ELSE [@ EXCEPT !.result = "DOCKER::SANDBOX_BOOTSTRAP_INSTALL_FAILED"]]
    /\ UNCHANGED <<locks, execd_archive_cache, execd_containers, fetches, tracking>>
    /\ UNCHANGED threadFrame

\* container.start().
StartContainer(t, ok) ==
    /\ pcs[t] = "start"
    /\ pcs' = [pcs EXCEPT ![t] = AfterStep("start", ok)]
    /\ provision' = [provision EXCEPT ![t] =
                        IF ok
                        THEN [@ EXCEPT !.container = "started", !.steps = Append(@, "start")]
                        ELSE [@ EXCEPT !.steps = Append(@, "start_failed")]]
    /\ UNCHANGED <<locks, execd_archive_cache, execd_containers, fetches, tracking>>
    /\ UNCHANGED threadFrame

\* except DockerException: remove the container, a failure only logged; 500.
RemoveContainer(t, ok) ==
    /\ pcs[t] = "remove_container"
    /\ pcs' = [pcs EXCEPT ![t] = "done"]
    /\ provision' = [provision EXCEPT ![t] =
                        [@ EXCEPT !.container = IF ok /\ @ # "none" THEN "removed" ELSE @,
                                  !.result = "DOCKER::SANDBOX_START_FAILED"]]
    /\ UNCHANGED <<locks, execd_archive_cache, execd_containers, fetches, tracking>>
    /\ UNCHANGED threadFrame

\* The block's dict writes, the end of the block, timer.start(); then the
\* caller goes on: create_sandbox returns Running, renew_expiration updates
\* the labels.
Schedule(t) ==
    /\ pcs[t] = "schedule"
    /\ locks' = LeaveWith(locks, "expiration")
    /\ tracking' = tracking \cup {IF t \in Workers THEN t ELSE "old"}
    /\ IF t \in Workers
       THEN /\ pcs' = [pcs EXCEPT ![t] = "done"]
            /\ provision' = [provision EXCEPT ![t] =
                                [@ EXCEPT !.steps = Append(@, "schedule"),
                                          !.result = "Running"]]
       ELSE /\ pcs' = [pcs EXCEPT ![t] = "update_labels"]
            /\ UNCHANGED provision
    /\ UNCHANGED <<execd_archive_cache, execd_containers, fetches>>
    /\ UNCHANGED threadFrame

\* _get_container_by_sandbox_id in _expire_sandbox, renew_expiration and
\* get_sandbox.  The Timer goes on to kill or, without a container, to
\* _remove_expiration_tracking; a request is a renewal or a get.
Lookup(t, found, op) ==
    /\ t \in {"timer", "request"}
    /\ pcs[t] = "lookup"
    /\ pcs' = [pcs EXCEPT ![t] =
                      IF t = "timer" THEN (IF found THEN "kill" ELSE "untrack_lock")
                      ELSE IF op = "renew" THEN (IF found THEN "schedule_lock" ELSE "done")
                      ELSE (IF found THEN "tracked_lock" ELSE "pending_lock")]
    /\ UNCHANGED <<locks, threadData>>
    /\ UNCHANGED threadFrame

\* container.kill() and container.remove(force=True), failures only logged.
KillRemove(ok) ==
    /\ pcs["timer"] \in {"kill", "remove"}
    /\ pcs' = [pcs EXCEPT !["timer"] = IF @ = "kill" THEN "remove" ELSE "untrack_lock"]
    /\ UNCHANGED <<locks, threadData>>
    /\ UNCHANGED threadFrame

\* _remove_expiration_tracking: the block's pops, the end of the block.
Untrack ==
    /\ pcs["timer"] = "untrack"
    /\ locks' = LeaveWith(locks, "expiration")
    /\ tracking' = tracking \ {"old"}
    /\ pcs' = [pcs EXCEPT !["timer"] = "done"]
    /\ UNCHANGED <<execd_archive_cache, execd_containers, fetches, provision>>
    /\ UNCHANGED threadFrame

\* _get_tracked_expiration: the block's read, the end of the block.
Tracked ==
    /\ pcs["request"] = "tracked"
    /\ locks' = LeaveWith(locks, "expiration")
    /\ pcs' = [pcs EXCEPT !["request"] = "done"]
    /\ UNCHANGED threadData
    /\ UNCHANGED threadFrame

\* container.update(labels) in renew_expiration.
UpdateLabels(ok) ==
    /\ pcs["request"] = "update_labels"
    /\ pcs' = [pcs EXCEPT !["request"] = "done"]
    /\ UNCHANGED <<locks, threadData>>
    /\ UNCHANGED threadFrame

\* _get_pending_sandbox and _remove_pending_sandbox: the block, its end.
PendingBlock(t) ==
    /\ t \in {"request", "cleanup"}
    /\ pcs[t] = "pending"
    /\ locks' = LeaveWith(locks, "pending")
    /\ pcs' = [pcs EXCEPT ![t] = "done"]
    /\ UNCHANGED threadData
    /\ UNCHANGED threadFrame

ThreadNext ==
    \/ \E t \in Workers, ok \in BOOLEAN :
          \/ EnsureImage(t, ok)
          \/ CreateContainer(t, ok)
          \/ GetContainer(t, ok)
          \/ FetchImage(t, ok)
          \/ FetchCreate(t, ok)
          \/ FetchStart(t, ok)
          \/ FetchRead(t, ok)
          \/ FetchRemove(t, ok)
          \/ CopyExecd(t, ok)
          \/ InstallBootstrap(t, ok)
          \/ StartContainer(t, ok)
          \/ RemoveContainer(t, ok)
    \/ \E t \in Workers : FetchCheck(t) \/ FetchRecheck(t)
    \/ \E t \in Tasks : AcquireLock(t)
    \/ \E t \in Workers \cup {"request"} : Schedule(t)
    \/ \E t \in {"timer", "request"}, found \in BOOLEAN, op \in {"renew", "get"} :
          Lookup(t, found, op)
    \/ \E ok \in BOOLEAN : KillRemove(ok) \/ UpdateLabels(ok)
    \/ Untrack
    \/ Tracked
    \/ \E t \in {"request", "cleanup"} : PendingBlock(t)

\* The threads run in a Docker service with nothing else going on.
ThreadsInit == CallInit /\ runtime = "docker"

ThreadSpec == ThreadsInit /\ [][ThreadNext]_vars

\* ------------------------------------------------------------------ properties
\* The expiration timers armed for an id.
ArmedFor(id) == {tm \in timers : tm.id = id}

\* No deadline is tracked, no timer is registered and no timer is armed for id.
Untracked(id) ==
    /\ sandbox_expirations[id] = 0
    /\ expiration_timers[id] = 0
    /\ ArmedFor(id) = {}

\* C1: in the Docker service, once it is up, every sandbox whose container
\* exists has exactly one armed expiration timer, the one registered for its id.
C1_OneTimerPerLiveSandbox ==
    (runtime = "docker" /\ booted) =>
        \A id \in Ids :
            containers[id].exists =>
                /\ expiration_timers[id] # 0
                /\ ArmedFor(id) = {Tm(id, expiration_timers[id])}

\* C2: after renew_expiration(id, t') with t' > now has returned successfully,
\* the tracked deadline of id is t' and the only timer armed for id is the one
\* armed for t' (the timer of the previous deadline is cancelled).  The answer
\* stays the last one while only time passes.
C2_RenewReplacesTimer ==
    (runtime = "docker" /\ resp.op = "renew" /\ resp.code = "ok") =>
        /\ sandbox_expirations[resp.id] = resp.t
        /\ expiration_timers[resp.id] = resp.t
        /\ ArmedFor(resp.id) = {Tm(resp.id, resp.t)}

\* A successful renew to a deadline other than the one written at creation (the
\* label still carries the old deadline: the label update failed), leaving one timer.
C2_Witness ==
    /\ runtime = "docker" /\ resp.op = "renew" /\ resp.code = "ok"
    /\ containers[resp.id].label.kind = "iso"
    /\ containers[resp.id].label.t # resp.t
    /\ timers = {Tm(resp.id, resp.t)}

\* The renew_expiration calls on id that have returned successfully.
RenewsDone(id) == {th \in Threads : renews[th].pc = "done" /\ renews[th].id = id}

\* C3: renew is linearizable per sandbox id.  Once no renew_expiration call and no
\* timer callback is in flight, a sandbox whose renews have all returned with
\* their label written, and which still has its container and an armed timer,
\* carries the deadline of one and the same renew in the tracked deadline, in
\* the armed timer and in the expires-at label.
C3_RenewLinearizable ==
    (/\ \A th \in Threads : renews[th].pc \in {"idle", "done"}
     /\ callbacks = {})
    => \A id \in Ids :
          (/\ containers[id].exists
           /\ RenewsDone(id) # {}
           /\ \A th \in RenewsDone(id) : renews[th].labelled
           /\ ArmedFor(id) # {})
          => \E th \in RenewsDone(id) :
                /\ sandbox_expirations[id] = renews[th].t
                /\ ArmedFor(id) = {Tm(id, renews[th].t)}
                /\ containers[id].label = IsoFormat(renews[th].t)

\* C4: whenever a renew_expiration call on a Docker sandbox has returned, the
\* container's opensandbox.io/expires-at label equals the deadline of the
\* expiration timer scheduled for the sandbox.
C4_LabelAgreesWithTimer ==
    (runtime = "docker" /\ resp.op = "renew" /\ resp.code = "ok"
        /\ containers[resp.id].exists) =>
        /\ containers[resp.id].label.kind = "iso"
        /\ ParseTimestamp(containers[resp.id].label) = expiration_timers[resp.id]

\* Timers fire and the clock advances: a Timer whose delay has elapsed runs its
\* callback, and time does not stop before the horizon.
FairSpec == Spec /\ WF_vars(Tick) /\ WF_vars(Expire)

\* C5: hard expiration.  Timers firing fairly, every Docker sandbox with a
\* container and a tracked deadline is eventually killed and removed, unless a
\* delete_sandbox is called on it before.
C5_HardExpiration ==
    \A id \in Ids :
        (runtime = "docker" /\ containers[id].exists /\ sandbox_expirations[id] # 0)
            ~> (~containers[id].exists \/ (resp.op = "delete" /\ resp.id = id))

\* The parts of the state a renew may touch.
RenewTargets == <<containers, sandbox_expirations, expiration_timers, timers, workloads>>

\* C6, as stated: a renew_expiration(id, t') with t' <= now is answered 400 and
\* changes nothing, on both providers, whatever the id (the runtime answering).
C6_AsStated ==
    [][\A id \in Ids, t \in Times :
          (t <= now /\ (\/ \E lookup \in {"found", "404"}, updateOk \in BOOLEAN :
                              RenewExpiration(id, t, lookup, updateOk)
                        \/ \E apiOk \in BOOLEAN : K8sRenewExpiration(id, t, apiOk)))
            => (resp'.code = "400" /\ UNCHANGED RenewTargets)]_vars

\* C6, amended: a renew_expiration(id, t') with t' <= now changes nothing on
\* either provider; Kubernetes answers 400 whatever the id, Docker answers 400
\* when the container of id is found, and the lookup's 404 or 500 otherwise.
C6_PastRenewMutatesNothing ==
    [][\A id \in Ids, t \in Times :
          /\ \A lookup \in {"found", "404", "500"}, updateOk \in BOOLEAN :
                (t <= now /\ RenewExpiration(id, t, lookup, updateOk))
                  => /\ UNCHANGED RenewTargets
                     /\ resp'.code = IF lookup = "found" THEN "400" ELSE lookup
                     /\ (lookup = "found") => containers[id].exists
          /\ (t <= now /\ \E apiOk \in BOOLEAN : K8sRenewExpiration(id, t, apiOk))
                => (resp'.code = "400" /\ UNCHANGED RenewTargets)]_vars

\* A renew to a time that is not in the future was refused with 400 while the
\* sandbox has a tracked deadline in the future.
C6_Witness ==
    /\ runtime = "docker" /\ resp.op = "renew" /\ resp.code = "400"
    /\ resp.t <= now
    /\ sandbox_expirations[resp.id] > now
    /\ Tm(resp.id, sandbox_expirations[resp.id]) \in timers

\* C7: on both providers, the runtime answering: delete_sandbox of an id with no
\* runtime object is answered 404 and changes nothing; delete_sandbox of an
\* existing id whose kill and remove go through succeeds and the object is gone,
\* so that a further delete_sandbox of the id is answered 404; a Docker delete
\* answers success only when the container is gone.
C7_DeleteOutcomes ==
    [][\A id \in Ids :
          /\ \A lookup \in {"found", "404"}, outcome \in DeleteOutcomes :
                DeleteSandbox(id, lookup, outcome) =>
                    IF ~containers[id].exists
                    THEN resp'.code = "404" /\ UNCHANGED containers
                    ELSE /\ (resp'.code = "ok") = (outcome = "removed")
                         /\ (resp'.code = "ok") = ~containers'[id].exists
                         /\ resp'.code \in {"ok", "500"}
          /\ K8sDeleteSandbox(id, TRUE) =>
                IF ~workloads[id].exists
                THEN resp'.code = "404" /\ UNCHANGED workloads
                ELSE resp'.code = "ok" /\ ~workloads'[id].exists]_vars

\* A delete_sandbox of an existing sandbox has succeeded: its container is gone
\* and its id, handed out before, has no runtime object any more.
C7_Witness ==
    /\ resp.op = "delete" /\ resp.code = "ok"
    /\ resp.id \in used
    /\ runtime = "docker"
    /\ ~containers[resp.id].exists

C9_GetPrefersContainer ==
    (runtime = "docker" /\ resp.op = "get" /\ resp.code # "500") =>
        LET id == resp.id
            sb == ContainerToSandbox(containers, Tracker, id)
            pd == PendingToSandbox(pending_sandboxes, id)
        IN  IF containers[id].exists
            THEN /\ resp.code = "ok" /\ resp.src = "container"
                 /\ resp.state = sb.state /\ resp.t = sb.expires
            ELSE IF pending_sandboxes[id].exists
            THEN /\ resp.code = "ok" /\ resp.src = "pending"
                 /\ resp.state = pd.state /\ resp.t = pd.expires
            ELSE resp.code = "404"

\* A get answered from the container while a pending record of the id exists.
C9_Witness ==
    /\ resp.op = "get" /\ resp.code = "ok" /\ resp.src = "container"
    /\ pending_sandboxes[resp.id].exists
    /\ containers[resp.id].exists

\* C10: list_sandboxes on Docker never answers two items with the same id, and
\* no item of an id that has a container comes from the pending registry, whether
\* the container's projection matches the filter or not.
C10_ListDedupes ==
    (runtime = "docker" /\ resp.op = "list" /\ resp.code = "ok") =>
        /\ \A j, k \in 1..Len(resp.items) : resp.items[j].id = resp.items[k].id => j = k
        /\ \A k \in 1..Len(resp.items) :
              containers[resp.items[k].id].exists =>
                  resp.items[k] = ContainerToSandbox(containers, Tracker, resp.items[k].id)

\* A list whose filter the pending record matches and the container does not,
\* both existing for the id: nothing is answered for the id.
C10_Witness ==
    /\ resp.op = "list" /\ resp.code = "ok"
    /\ \E id \in Ids :
          /\ containers[id].exists /\ pending_sandboxes[id].exists
          /\ pending_sandboxes[id].state \in resp.filter
          /\ ContainerState(containers[id]) \notin resp.filter
          /\ resp.items = << >>

\* C11: after an asynchronous provisioning failure, every get_sandbox of the id
\* that is answered before the pending TTL has elapsed returns the state Failed
\* with the reason PROVISIONING_ERROR.
C11_FailedUntilTTL ==
    [][\A id \in Ids :
         ( /\ pending_sandboxes[id].state = "Failed"
           /\ now < pending_cleanup_timers[id]
           /\ \E lookup \in {"found", "404"} : GetSandbox(id, lookup) )
         => /\ resp'.code = "ok"
            /\ resp'.state = "Failed"
            /\ resp'.reason = "PROVISIONING_ERROR"]_vars

\* The ports whose endpoint is asked for.
Ports == {8080}

\* C12: a Kubernetes create_sandbox that returns success returns a workload
\* whose status is Running and for which get_endpoint_info yields an ip:port.
C12_SuccessHasEndpoint ==
    (wait.pc = "done" /\ resp.op = "create" /\ resp.code = "ok")
    => /\ GetStatus(wait.workload).state = "Running"
       /\ \A port \in Ports : GetEndpointInfo(wait.workload, port) # None

\* C13: the readiness wait of the Kubernetes create_sandbox terminates; a poll
\* that observes Failed aborts at once with KUBERNETES::POD_FAILED, the timeout
\* raises KUBERNETES::POD_READY_TIMEOUT (504) and only once the polls are used
\* up; in both cases delete_workload has been attempted when the error reaches
\* the caller, and the error the caller gets is the wait's error whether the
\* deletion succeeded or failed.
C13_WaitTerminatesAndCleansUp ==
    /\ (wait.pc = "polling") ~> (wait.pc = "done")
    /\ [][(wait.pc = "polling" /\ WorkloadStatus(batchsandbox).state = "Failed"
            /\ K8sPoll("workload"))
           => (wait'.pc = "cleanup" /\ wait'.err = "KUBERNETES::POD_FAILED")]_vars
    /\ [][(wait.pc = "polling" /\ wait'.err = "KUBERNETES::POD_READY_TIMEOUT")
           => wait.elapsed >= WaitTimeout]_vars
    /\ []((wait.pc = "done" /\ wait.err # "none")
           => /\ wait.cleanup \in {"deleted", "failed"}
              /\ wait.cleanup = "deleted" => ~batchsandbox.exists
              /\ resp.op = "create" /\ resp.err = wait.err
              /\ resp.code = IF wait.err = "KUBERNETES::POD_FAILED" THEN "500" ELSE "504")

C13_Witness ==
    /\ wait.pc = "done" /\ wait.cleanup = "failed" /\ batchsandbox.exists
    /\ resp.err = "KUBERNETES::POD_READY_TIMEOUT" /\ resp.code = "504"

\* C14: when the Docker create_sandbox fails after the container was created
\* (execd copy, bootstrap install or start) and the daemon would carry out
\* remove(force=True), the caller gets an error and no container labelled with
\* the sandbox id remains.
C14_FailedCreateLeavesNoContainer ==
    [][\A timeout \in Timeouts, failure \in {"execd", "bootstrap", "start"} :
         CreateSandbox(ValidRequest, timeout, failure, TRUE)
         => (resp'.code = "500" /\ ~containers'[resp'.id].exists)]_vars

\* C15: on both providers a create_sandbox whose entrypoint is empty or whose
\* metadata holds an invalid label key is answered 400, with INVALID_ENTRYPOINT
\* or INVALID_METADATA_LABEL, and has changed nothing: no container or
\* workload, no timer, no pending record.
C15_InvalidCreateHasNoEffect ==
    [][\A request \in Requests \ {ValidRequest}, timeout \in Timeouts :
         ( /\ request.entrypoint = << >> \/ BadKey \in DOMAIN request.metadata
           /\ \/ CreateSandbox(request, timeout, "none", TRUE)
              \/ K8sCreateSandbox(request, timeout, "ready") )
         => /\ resp'.code = "400"
            /\ resp'.err = IF request.entrypoint = << >>
                           THEN "DOCKER::INVALID_ENTRYPOINT"
                           ELSE "SANDBOX::INVALID_METADATA_LABEL"
            /\ UNCHANGED <<containers, workloads, sandbox_expirations, expiration_timers,
                           timers, pending_sandboxes, pending_cleanup_timers>>]_vars

C15_Witness ==
    /\ runtime = "docker" /\ resp.op = "create" /\ resp.code = "400"
    /\ resp.err = "SANDBOX::INVALID_METADATA_LABEL"

\* C16: on the Docker provider, pausing a Running sandbox succeeds and leaves
\* the same sandbox in the state Paused, resuming a Paused sandbox succeeds and
\* leaves the same sandbox in the state Running; neither changes the id, the
\* creation time, the expiration deadline or the timer of the sandbox, so pause
\* followed by resume gives back the sandbox that was Running.
C16_PauseResumeRoundTrip ==
    [][\A id \in Ids :
         LET before == ContainerToSandbox(containers, Tracker, id)
             trackerAfter == [exp |-> sandbox_expirations', tm |-> expiration_timers',
                              armed |-> timers']
             after == ContainerToSandbox(containers', trackerAfter, id)
         IN  /\ (before.state = "Running" /\ PauseSandbox(id, "found", TRUE))
                => /\ resp'.code = "ok"
                   /\ after = [before EXCEPT !.state = "Paused",
                                             !.reason = "CONTAINER_PAUSED"]
                   /\ UNCHANGED <<sandbox_expirations, expiration_timers, timers>>
                   /\ containers'[id].label = containers[id].label
             /\ (before.state = "Paused" /\ ResumeSandbox(id, "found", TRUE))
                => /\ resp'.code = "ok"
                   /\ after = [before EXCEPT !.state = "Running",
                                             !.reason = "CONTAINER_RUNNING"]
                   /\ UNCHANGED <<sandbox_expirations, expiration_timers, timers>>
                   /\ containers'[id].label = containers[id].label]_vars

C16_Witness ==
    /\ resp.op = "resume" /\ resp.code = "ok"
    /\ ContainerState(containers[resp.id]) = "Running"
    /\ expiration_timers[resp.id] # 0

\* C17: pause is accepted only for a sandbox in the state Running and is
\* otherwise refused with 409 DOCKER::SANDBOX_NOT_RUNNING, resume only for a
\* sandbox in the state Paused and otherwise refused with 409
\* DOCKER::SANDBOX_NOT_PAUSED; a refused call leaves the container as it was.
C17_PauseResumeGuards ==
    [][\A id \in Ids, daemonOk \in BOOLEAN :
         /\ (ContainerState(containers[id]) # "Running" /\ PauseSandbox(id, "found", daemonOk))
            => /\ resp'.code = "409" /\ resp'.err = "DOCKER::SANDBOX_NOT_RUNNING"
               /\ UNCHANGED containers
         /\ (ContainerState(containers[id]) # "Paused" /\ ResumeSandbox(id, "found", daemonOk))
            => /\ resp'.code = "409" /\ resp'.err = "DOCKER::SANDBOX_NOT_PAUSED"
               /\ UNCHANGED containers]_vars

\* C18: every runtime object a create made, on either provider and whatever
\* keys the user's metadata holds, carries the label opensandbox.io/id with the
\* id that create generated, and no two objects were given the same id.
C18_IdLabelIsGeneratedId ==
    /\ \A o \in objects :
          SANDBOX_ID_LABEL \in DOMAIN o.labels /\ o.labels[SANDBOX_ID_LABEL] = o.id
    /\ \A o1, o2 \in objects : o1.id = o2.id => o1 = o2

\* C19: the metadata get and list return is the metadata given to create
\* minus the keys that start with opensandbox.io/, and holds no system label,
\* on both providers and in both Docker network modes.
C19_MetadataRoundTrip ==
    shown # NoShown
    => /\ shown.metadata =
            [k \in {x \in DOMAIN shown.given : x.prefix # ReservedPrefix} |-> shown.given[k]]
       /\ DOMAIN shown.metadata \cap SystemLabels = {}

\* C20: for every entrypoint, the command _build_task_template hands to
\* /bin/sh -c is read by the shell as exactly one command, sent to the
\* background, whose words are bootstrap.sh followed by the entrypoint's
\* arguments unchanged.
C20_QuotingPreservesArguments ==
    task.pc = "run"
    => /\ task.parsed.ok
       /\ task.parsed.commands =
            << [words |-> <<(<<Bootstrap>>)>> \o task.entrypoint, background |-> TRUE] >>

C20_Witness ==
    /\ task.pc = "run" /\ task.parsed.ok
    /\ task.entrypoint = << <<"'">>, <<";">> >>

C22_StatusPrecedence ==
    call.op = "_container_to_sandbox" =>
        LET f == call.State
            status == Lower(f.Status)
            flagged == f.Running \/ f.Paused \/ f.Restarting
            got == call.status
        IN  /\ got.state \in {"Running", "Paused", "Pending", "Terminated", "Failed", "Unknown"}
            /\ (f.Running /\ ~f.Paused) => got.state = "Running"
            /\ f.Paused => got.state = "Paused"
            /\ (~f.Running /\ ~f.Paused /\ f.Restarting)
                   => got = [state |-> "Running", reason |-> "CONTAINER_RESTARTING"]
            /\ (~flagged /\ status \in {"created", "starting"}) => got.state = "Pending"
            /\ (~flagged /\ status \in {"exited", "dead"} /\ f.ExitCode = 0)
                   => got.state = "Terminated"
            /\ (~flagged /\ status \in {"exited", "dead"} /\ f.ExitCode # 0)
                   => got.state = "Failed"
            /\ (~flagged /\ status \notin {"created", "starting", "exited", "dead"})
                   => got.state = "Unknown"

C22_Witness ==
    /\ call.op = "_container_to_sandbox"
    /\ call.State = [Status |-> "exited", Running |-> FALSE, Paused |-> FALSE,
                     Restarting |-> FALSE, ExitCode |-> 0]
    /\ call.status.state = "Terminated"

\* C23: get_status maps a workload snapshot as follows: ready = 1 with the
\* endpoints annotation present gives Running/READY_WITH_IP; otherwise
\* ready >= 1 gives Pending/POD_READY_NO_IP; otherwise allocated >= 1 gives
\* Pending/POD_SCHEDULED; otherwise Pending/BATCHSANDBOX_PENDING.  The result
\* is determined by the snapshot's counters and annotation alone.
C23_GetStatusMapping ==
    call.op = "get_status" =>
        LET w == call.workload
            present == w.endpoints \notin {"absent", ""}
            got == call.status
        IN  /\ (w.ready = 1 /\ present)
                   => got = [state |-> "Running", reason |-> "READY_WITH_IP"]
            /\ (w.ready >= 1 /\ ~(w.ready = 1 /\ present))
                   => got = [state |-> "Pending", reason |-> "POD_READY_NO_IP"]
            /\ (w.ready < 1 /\ w.allocated >= 1)
                   => got = [state |-> "Pending", reason |-> "POD_SCHEDULED"]
            /\ (w.ready < 1 /\ w.allocated < 1)
                   => got = [state |-> "Pending", reason |-> "BATCHSANDBOX_PENDING"]

C23_Witness ==
    /\ call.op = "get_status"
    /\ call.workload.ready = 2
    /\ call.workload.endpoints = "[\"10.0.0.5\"]"
    /\ call.status.reason = "POD_READY_NO_IP"

\* The first non-empty text of a list of addresses, "none" when there is none.
RECURSIVE FirstNonEmpty(_)
FirstNonEmpty(ips) ==
    IF ips = << >> THEN "none"
    ELSE IF Head(ips) # "" THEN Head(ips) ELSE FirstNonEmpty(Tail(ips))

\* C24: get_endpoint on Kubernetes answers "<ip>:<port>" with ip the first
\* non-empty address of the JSON array in the endpoints annotation; when the
\* annotation is missing, is not a JSON array of addresses or is an empty
\* array, it answers 404 KUBERNETES::POD_IP_NOT_AVAILABLE.
C24_FirstNonEmptyIp ==
    (call.op = "get_endpoint" /\ call.workload.exists) =>
        LET parsed == JsonLoads(call.workload.endpoints)
            ip == IF call.workload.endpoints \notin {"absent", ""} /\ parsed.ok
                  THEN FirstNonEmpty(parsed.value) ELSE "none"
        IN  IF ip # "none"
            THEN call.code = "ok" /\ call.endpoint = [ip |-> ip, port |-> call.port]
            ELSE call.code = "404" /\ call.err = "KUBERNETES::POD_IP_NOT_AVAILABLE"

\* The host port a label names, 0 when the label is missing or names none.
LabelPort(label) ==
    IF label = "32768" THEN 32768 ELSE IF label = "32769" THEN 32769 ELSE 0

\* C25: Docker get_endpoint(id, port).  In host mode the answer is
\* "<public_host>:<port>".  In bridge mode, for an existing sandbox, port 8080
\* resolves to "<public_host>:<http host port label>" and every other port p to
\* "<public_host>:<execd host port label>/proxy/<p>"; when the label the port
\* resolves through is missing or invalid the answer is the error
\* NETWORK_MODE_ENDPOINT_UNAVAILABLE and no endpoint.
C25_DockerEndpoint ==
    (call.op = "docker_get_endpoint" /\ ~call.resolve_internal) =>
        LET got == call.answer
            label == IF call.port = 8080 THEN call.http_label ELSE call.execd_label
            proxy == IF call.port = 8080 THEN 0 ELSE call.port
        IN  /\ call.mode = "host"
                   => got.code = "ok" /\ got.endpoint = Endpoint(PublicHost, call.port, 0)
            /\ (call.mode = "bridge" /\ call.lookup = "found") =>
                   IF LabelPort(label) # 0
                   THEN /\ got.code = "ok"
                        /\ got.endpoint = Endpoint(PublicHost, LabelPort(label), proxy)
                   ELSE /\ got.err = "DOCKER::NETWORK_MODE_ENDPOINT_UNAVAILABLE"
                        /\ got.endpoint = NoEndpoint

C25_Witness ==
    /\ call.op = "docker_get_endpoint"
    /\ ~call.resolve_internal
    /\ call.mode = "bridge"
    /\ call.port = 44772
    /\ call.http_label = "32768"
    /\ call.execd_label = "32769"
    /\ call.answer.endpoint = Endpoint(PublicHost, 32769, 44772)

\* The items of the pages 1..n of a list, one page after the other.
RECURSIVE PagesUpTo(_, _, _, _)
PagesUpTo(provider, sandboxes, size, n) ==
    IF n = 0 THEN << >>
    ELSE PagesUpTo(provider, sandboxes, size, n - 1)
         \o ListPage(provider, sandboxes, [page |-> n, size |-> size]).page.items

C27_NewestFirst ==
    (call.op = "list_sandboxes" /\ call.answer.code = "ok") =>
        LET items == call.answer.page.items
            N == Len(call.sandboxes)
        IN  /\ \A i, j \in 1..Len(items) : i < j => items[i].created >= items[j].created
            /\ (call.answer.page.page = 1 /\ call.answer.page.page_size >= N)
                   => /\ Len(items) = N
                      /\ \A k \in 1..N : \E i \in 1..N : items[i] = call.sandboxes[k]

C27_Witness ==
    /\ call.op = "list_sandboxes"
    /\ call.provider = "kubernetes"
    /\ Len(call.sandboxes) = 3
    /\ call.sandboxes[1].created < call.sandboxes[2].created
    /\ call.sandboxes[2].created < call.sandboxes[3].created
    /\ call.answer.code = "ok"
    /\ Len(call.answer.page.items) = 3
    /\ call.answer.page.items[1] = call.sandboxes[3]

\* C28: a list request without pagination is answered exactly as the same
\* request with page = 1 and pageSize = 20, with a normal response, on both
\* the Docker and the Kubernetes service.
C28_DefaultPagination ==
    (call.op = "list_sandboxes" /\ call.pagination = NoPagination) =>
        /\ call.answer.code = "ok"
        /\ call.answer = ListPage(call.provider, call.sandboxes, [page |-> 1, size |-> 20])

\* The environment a create hands to the runtime: the list given to
\* create_container on Docker, the env of the main container or of the task
\* on Kubernetes.
HandedEnvironment ==
    IF call.op = "_provision_sandbox" THEN call.environment
    ELSE IF "taskTemplate" \in DOMAIN call.spec THEN call.spec.taskTemplate.env
    ELSE call.spec.template.containers[1].env

\* C29: the environment handed to the runtime has an entry for each env key
\* whose value is a string, the empty string included, and no entry for a key
\* whose value is null, on the Docker and on the Kubernetes path.
C29_EnvDropsNullKeepsEmpty ==
    (call.op = "_provision_sandbox" \/ call.op = "create_workload") =>
        LET env == IF call.op = "_provision_sandbox" THEN call.env ELSE call.request.env
        IN  \A k \in DOMAIN env :
                IF env[k] # Null
                THEN [name |-> k, value |-> env[k]] \in HandedEnvironment
                ELSE \A e \in HandedEnvironment : e.name # k

\* os.path.abspath of a host path, against the server's working directory.
AbsPath(host_path) == IF host_path = "data" THEN "/cwd/data" ELSE host_path

\* C30: a Docker create with volume mounts is rejected with 400
\* INVALID_VOLUME_MOUNT before any container is created when a host path does
\* not exist; otherwise the host config's binds map each host path, made
\* absolute against the server's working directory, to the container path
\* and the mode ro or rw.
C30_VolumeMounts ==
    (call.op = "_provision_sandbox" /\ call.volume_mounts # {}) =>
        IF \E m \in call.volume_mounts : m.host_path \notin call.existing
        THEN /\ call.code = "400"
             /\ call.err = "DOCKER::INVALID_VOLUME_MOUNT"
             /\ ~call.created
        ELSE /\ "binds" \in DOMAIN call.host_config
             /\ call.host_config.binds =
                    {[host |-> AbsPath(m.host_path), bind |-> m.container_path,
                      mode |-> IF m.read_only THEN "ro" ELSE "rw"] : m \in call.volume_mounts}

\* C31: after a Docker start-up, every pre-existing container with a sandbox
\* id label whose expires-at label is in the future has a timer armed for the
\* label's deadline; one whose label is already expired has been killed and
\* removed and has no timer; one without the label has no timer and is as it
\* was.
C31_StartupRestores ==
    [][Startup =>
        \A id \in Ids : containers[id].exists =>
            LET label == containers[id].label
            IN  /\ (label.kind = "iso" /\ label.t > now)
                       => /\ Tm(id, label.t) \in timers'
                          /\ expiration_timers'[id] = label.t
                          /\ sandbox_expirations'[id] = label.t
                /\ (label.kind = "iso" /\ label.t <= now)
                       => /\ ~containers'[id].exists
                          /\ \A t \in Times : Tm(id, t) \notin timers'
                /\ label.kind = "none"
                       => /\ containers'[id] = containers[id]
                          /\ \A t \in Times : Tm(id, t) \notin timers']_vars

\* C32: when the lookup of the expiration callback fails with an error other
\* than not-found while the container still exists, the sandbox keeps its
\* expiration tracking: the tracked deadline is still there after the callback.
C32_TransientLookupKeepsTracking ==
    [][\A id \in Ids, at \in Times :
          (TimerFire(id, at, "500", "removed") /\ containers[id].exists)
              => /\ containers'[id].exists
                 /\ sandbox_expirations'[id] = sandbox_expirations[id]
                 /\ sandbox_expirations'[id] # 0]_vars

\* C36: in every reachable state of the Docker service, with calls and timer
\* callbacks overlapping, the ids with a tracked deadline are the ids with a
\* registered timer, and the registered timer of an id was armed for the
\* tracked deadline.
C36_DeadlinesMatchTimers ==
    \A id \in Ids :
        /\ (sandbox_expirations[id] # 0) = (expiration_timers[id] # 0)
        /\ expiration_timers[id] = sandbox_expirations[id]
        /\ \A tm \in timers : tm.id = id => tm.at = sandbox_expirations[id]

C36_Witness ==
    \E id \in Ids, cb \in callbacks :
        /\ cb.id = id
        /\ sandbox_expirations[id] # 0
        /\ sandbox_expirations[id] # cb.at
        /\ Tm(id, sandbox_expirations[id]) \in timers

\* C37: an expiration callback whose timer was replaced by a renew while the
\* callback was running clears only its own tracking: the timer and the
\* deadline the renew installed for the same id are still there when the
\* callback has finished.
C37_SupersededCallbackKeepsRenewal ==
    [][\A cb \in callbacks :
          (/\ expiration_timers[cb.id] # 0
           /\ expiration_timers[cb.id] # cb.at
           /\ \/ ExpireUntrack(cb)
              \/ \E lookup \in {"404", "500"} : ExpireLookup(cb, lookup))
              => /\ expiration_timers'[cb.id] = expiration_timers[cb.id]
                 /\ sandbox_expirations'[cb.id] = sandbox_expirations[cb.id]
                 /\ (Tm(cb.id, expiration_timers[cb.id]) \in timers
                        => Tm(cb.id, expiration_timers[cb.id]) \in timers')]_vars

\* C38: a Docker delete_sandbox that fails with SANDBOX_DELETE_FAILED (kill or
\* remove raised) and leaves the container in existence leaves the sandbox's
\* expiration timer and tracked deadline in place.
C38_FailedDeleteKeepsTracking ==
    [][\A id \in Ids, outcome \in {"kill_failed", "remove_failed"} :
          (DeleteSandbox(id, "found", outcome) /\ containers'[id].exists)
              => /\ resp'.code = "500"
                 /\ sandbox_expirations'[id] = sandbox_expirations[id]
                 /\ expiration_timers'[id] = expiration_timers[id]
                 /\ timers' = timers]_vars

\* C40: get_endpoint(id, port) on the Docker service answers an endpoint only
\* when a container of id exists at the time of the call; for an id without a
\* container it answers 404 DOCKER::SANDBOX_NOT_FOUND, in host mode as in
\* bridge mode.
C40_EndpointOnlyForExisting ==
    (call.op = "docker_get_endpoint" /\ ~call.resolve_internal /\ call.lookup = "404") =>
        /\ call.answer.code = "404"
        /\ call.answer.err = "DOCKER::SANDBOX_NOT_FOUND"
        /\ call.answer.endpoint = NoEndpoint

\* C39: BatchSandboxProvider.get_status yields only Running or Pending, for
\* every workload.  A readiness wait that polls this provider's status
\* therefore never takes the POD_FAILED branch, and leaves the loop with an
\* error only through the readiness timeout, once the polls are used up.
C39_OnlyTimeoutEndsTheWait ==
    /\ [](batchsandbox.exists => GetStatus(batchsandbox).state \in {"Running", "Pending"})
    /\ [][\A obs \in {"workload", "none", "error"} :
             (K8sPoll(obs) /\ WorkloadStatus(batchsandbox) = GetStatus(batchsandbox))
                 => /\ wait'.err = "none"
                    /\ wait'.pc \in {"polling", "done"}]_vars
    /\ [][(wait.pc = "polling" /\ wait'.pc = "cleanup"
              /\ WorkloadStatus(batchsandbox) = GetStatus(batchsandbox))
             => /\ wait'.err = "KUBERNETES::POD_READY_TIMEOUT"
                /\ wait.elapsed >= WaitTimeout]_vars

C39_Witness ==
    /\ wait.pc = "cleanup"
    /\ wait.err = "KUBERNETES::POD_READY_TIMEOUT"
    /\ batchsandbox.exists
    /\ ~batchsandbox.failed
    /\ batchsandbox.allocated = 0
    /\ wait.elapsed = WaitTimeout

\* C33: however the callers of _fetch_execd_archive interleave, the
\* pull/create/start/read sequence completes at most once, every caller that
\* got an archive got the same bytes, and a caller that has left the fetch
\* has left no throwaway container behind, whether it succeeded or failed.
FetchPositions ==
    {"fetch_recheck", "fetch_image", "fetch_create", "fetch_start", "fetch_read",
     "fetch_remove"}

C33_FetchOnceAndCleansUp ==
    /\ fetches <= 1
    /\ \A a, b \in Workers :
          (provision[a].archive # Null /\ provision[b].archive # Null)
              => provision[a].archive = provision[b].archive
    /\ \A w \in Workers :
          pcs[w] \notin FetchPositions => execd_containers[w] \in {"none", "removed"}

\* C34: the expiration lock is never held by a thread standing at a Docker
\* daemon call, no thread holds two of the three locks, some thread can
\* always take a step until all are done, and the expiration Timer waits
\* for no lock but the expiration lock, whose holder is never inside a
\* daemon call.
Blocked(t) ==
    /\ LockWanted(pcs[t]) # Free
    /\ locks[LockWanted(pcs[t])] # Free

C34_LocksNeverNest ==
    /\ \A t \in Tasks : locks["expiration"] = t => pcs[t] \notin DaemonCalls
    /\ \A t \in Tasks : Cardinality({l \in LockNames : locks[l] = t}) <= 1
    /\ (\E t \in Tasks : pcs[t] # "done") => \E t \in Tasks : pcs[t] # "done" /\ ~Blocked(t)
    /\ \A t \in Tasks : Blocked(t) => ~Blocked(locks[LockWanted(pcs[t])])
    /\ LockWanted(pcs["timer"]) \in {Free, "expiration"}
    /\ Blocked("timer") => pcs[locks["expiration"]] \notin DaemonCalls

C34_Witness ==
    /\ Blocked("timer")
    /\ locks["expiration"] = "request"
    /\ \E w \in Workers : locks["execd_archive"] = w /\ pcs[w] = "fetch_read"
    /\ \E w \in Workers : Blocked(w)

\* C35: a create_sandbox that returned Running has, in this order, created
\* the container with the id and expires-at labels, copied execd and the
\* bootstrap script into the container before its start, started it and
\* scheduled the expiration timer; and no timer is scheduled for a sandbox
\* whose creation or start failed.
C35_CreateOrder ==
    \A w \in Workers :
       /\ provision[w].result = "Running" =>
             /\ provision[w].steps = <<"create", "execd", "bootstrap", "start", "schedule">>
             /\ {"id", "expires_at"} \subseteq provision[w].labels
             /\ provision[w].container = "started"
             /\ w \in tracking
       /\ w \in tracking =>
             /\ provision[w].container = "started"
             /\ provision[w].result = "Running"
       /\ provision[w].result \notin {"none", "Running"} => w \notin tracking

C35_Witness ==
    \E a, b \in Workers :
       /\ provision[a].result = "Running"
       /\ a \in tracking
       /\ provision[b].result = "DOCKER::SANDBOX_START_FAILED"
       /\ provision[b].steps = <<"create", "execd", "bootstrap", "start_failed">>
       /\ b \notin tracking

=========================================================================
